---- MODULE Spec2Model ----
(***************************************************************************)
(* A model of space-toml: the scope-aware tokenizer (tokens.rs), the       *)
(* recursive-descent parser (parse.rs), the array and table data model     *)
(* (array.rs, tabledata.rs, table.rs), keys (key.rs, utils.rs) and the     *)
(* document (document.rs).                                                  *)
(*                                                                         *)
(* Text is a sequence of one-character strings; byte offsets are 0-based   *)
(* as in the source (all modelled characters are ASCII, one byte each).    *)
(* A Rust panic (panic!, unreachable!, unimplemented!, unwrap on None, an  *)
(* out-of-range slice, an arithmetic overflow in a checked build) is the   *)
(* outcome "Panic".                                                        *)
(***************************************************************************)
EXTENDS Integers, Sequences, FiniteSets, TLC

VARIABLES
    text,       \* the input text handed to tokens() / parse()
    checked,    \* TRUE: the build checks arithmetic overflow (debug profile)
    tk,         \* the fields of Tokens: chars, start, finished, scope, scope_stack
    last,       \* what the latest call of Tokens::next returned
    out,        \* the String the caller writes tokens / the document into
    erred,      \* an earlier call of Tokens::next returned Err
    before,     \* the tokenizer's scope and stack before the latest call
    doc,        \* the result of parse(text)
    written,    \* the result of Document::write on doc
    arr,        \* an ArrayData
    arrRes,     \* what the latest operation on arr returned
    arrPrev,    \* arr before the latest operation
    tbl,        \* a TableData
    tblOp,      \* the latest operation on tbl
    tree,       \* a Table of table.rs, the root of a tree
    treeRes,    \* what the latest find_or_insert_table returned
    treePrev    \* tree before the latest operation, and the path used

vars == <<text, checked, tk, last, out, erred, before, doc, written,
          arr, arrRes, arrPrev, tbl, tblOp, tree, treeRes, treePrev>>

lexVars == <<text, checked, tk, last, out, erred, before>>
parseVars == <<doc, written>>
arrVars == <<arr, arrRes, arrPrev>>
tblVars == <<tbl, tblOp>>
treeVars == <<tree, treeRes, treePrev>>

(***************************************************************************)
(* Bounds.                                                                 *)
(***************************************************************************)
MaxLen == 3

(***************************************************************************)
(* Characters and text.                                                    *)
(***************************************************************************)
Digits == {"0", "1", "2", "3", "4", "5", "6", "7", "8", "9"}

LowerCase == {"a", "b", "c", "d", "e", "f", "g", "h", "i", "j", "k", "l", "m",
              "n", "o", "p", "q", "r", "s", "t", "u", "v", "w", "x", "y", "z"}

UpperCase == {"A", "B", "C", "D", "E", "F", "G", "H", "I", "J", "K", "L", "M",
              "N", "O", "P", "Q", "R", "S", "T", "U", "V", "W", "X", "Y", "Z"}

HexDigits == Digits \cup {"a", "b", "c", "d", "e", "f"} \cup {"A", "B", "C", "D", "E", "F"}

KeyChars == LowerCase \cup UpperCase \cup Digits \cup {"_", "-"}

KeyStartChars == LowerCase \cup UpperCase \cup {"_", "-"}

NumberEnd == {",", " ", "\t", "\n", "]", "#"}

DateTimeChars == Digits \cup {"-", "T", ":", "t", "Z", "."}

Min(a, b) == IF a <= b THEN a ELSE b

\* text[i] for a 0-based byte offset i
Ch(t, i) == t[i + 1]

\* &text[a..b]: valid iff a <= b <= len
SliceOk(t, a, b) == 0 <= a /\ a <= b /\ b <= Len(t)

Slice(t, a, b) == SubSeq(t, a + 1, b)

\* (&self.text[start..]).starts_with(pat)
next_is(t, start, pat) ==
    /\ start + Len(pat) <= Len(t)
    /\ \A k \in 1..Len(pat) : t[start + k] = pat[k]

\* usize subtraction in an unchecked build wraps; -1 stands for 2^64 - 1
WrapSub1(n) == IF n >= 1 THEN n - 1 ELSE -1

(***************************************************************************)
(* Tokens, token errors and the results of Tokens::next.                   *)
(***************************************************************************)
Tok(ty, s) == [ty |-> ty, s |-> s, literal |-> FALSE, multiline |-> FALSE, b |-> FALSE]

StringTok(s, literal, multiline) ==
    [ty |-> "String", s |-> s, literal |-> literal, multiline |-> multiline, b |-> FALSE]

BoolTok(b) == [ty |-> "Bool", s |-> <<>>, literal |-> FALSE, multiline |-> FALSE, b |-> b]

TokenError(e, start, pos) == [e |-> e, start |-> start, pos |-> pos]

None == [k |-> "None"]
Panic == [k |-> "Panic"]
Ok(pos, tok) == [k |-> "Ok", pos |-> pos, tok |-> tok]
Err(err) == [k |-> "Err", err |-> err]

\* a step of the tokenizer: its fields afterwards and what it returned
Ret(st, res) == [st |-> st, res |-> res]

\* Ok((pos, tok(&text[a..b]))) with self.start = newStart, or the slice panics
OkSlice(t, st, pos, tok, a, b, newStart) ==
    IF SliceOk(t, a, b)
    THEN Ret([st EXCEPT !.start = newStart], Ok(pos, [tok EXCEPT !.s = Slice(t, a, b)]))
    ELSE Ret(st, Panic)

NewTokens == [ci |-> 0, start |-> 0, finished |-> FALSE, scope |-> "Key", scope_stack |-> <<>>]

\* a variant of scope_is_table that holds in every open scope
scope_is_open(st) == st.scope_stack # <<>>

scope_is_table(st) ==
    IF st.scope_stack = <<>> THEN FALSE
    ELSE st.scope_stack[Len(st.scope_stack)] = "{"

Pop(s) == SubSeq(s, 1, Len(s) - 1)

\* the offset of the first character at or after i that is not in set (or len)
RECURSIVE SkipWhile(_, _, _)
SkipWhile(t, i, set) ==
    IF i < Len(t) /\ Ch(t, i) \in set THEN SkipWhile(t, i + 1, set) ELSE i

\* the loop shared by read_whitespace, read_key and read_datetime
read_run(t, st, ty, set, endStart) ==
    LET j == SkipWhile(t, st.ci, set) IN
    IF j < Len(t)
    THEN OkSlice(t, [st EXCEPT !.ci = j], st.start, Tok(ty, <<>>), st.start, j, j)
    ELSE OkSlice(t, [st EXCEPT !.ci = j], st.start, Tok(ty, <<>>), st.start, Len(t), endStart)

read_whitespace(t, st) == read_run(t, st, "Whitespace", {" ", "\t"}, st.start)

read_key(t, st) == read_run(t, st, "PlainKey", KeyChars, st.start)

read_datetime(t, st) == read_run(t, st, "DateTime", DateTimeChars, Len(t))

\* the offset of the first "\n" or "\r\n" at or after i (or len)
RECURSIVE CommentEnd(_, _)
CommentEnd(t, i) ==
    IF i >= Len(t) THEN i
    ELSE IF next_is(t, i, <<"\r", "\n">>) \/ Ch(t, i) = "\n" THEN i
    ELSE CommentEnd(t, i + 1)

read_comment(t, st) ==
    LET j == CommentEnd(t, st.ci) IN
    IF j < Len(t)
    THEN OkSlice(t, [st EXCEPT !.ci = j], st.start, Tok("Comment", <<>>), st.start + 1, j, j)
    ELSE OkSlice(t, [st EXCEPT !.ci = j], st.start, Tok("Comment", <<>>), st.start + 1, Len(t), st.start)

read_bracket(t, st0, open) ==
    LET start == st0.start
        st == [st0 EXCEPT !.start = start + 1]
        ch == IF open THEN "[" ELSE "]"
        single ==
            IF open
            THEN Ret([st EXCEPT !.scope_stack = Append(@, "[")],
                     Ok(start, Tok("SingleBracketOpen", <<>>)))
            ELSE IF st.scope_stack = <<>>
            THEN Ret([st EXCEPT !.finished = TRUE],
                     Err(TokenError("UnmatchedClosingBrace", -1, st.start - 1)))
            ELSE Ret([st EXCEPT !.scope_stack = Pop(@)],
                     Ok(start, Tok("SingleBracketClose", <<>>)))
    IN  IF st.scope = "Key" /\ st.ci < Len(t) /\ Ch(t, st.ci) = ch
        THEN Ret([st EXCEPT !.ci = @ + 1, !.start = @ + 1],
                 Ok(start, Tok(IF open THEN "DoubleBracketOpen" ELSE "DoubleBracketClose", <<>>)))
        ELSE single

\* the four (or eight) hex digits of a \u (\U) escape: the fields afterwards and
\* the offset of a character that is no hex digit (-1: none)
RECURSIVE hex_loop(_, _, _)
hex_loop(t, st, n) ==
    IF n = 0 \/ st.ci >= Len(t) THEN [st |-> st, bad |-> -1]
    ELSE IF Ch(t, st.ci) \in HexDigits
    THEN hex_loop(t, [st EXCEPT !.ci = @ + 1], n - 1)
    ELSE [st |-> [st EXCEPT !.ci = @ + 1], bad |-> st.ci]

RECURSIVE literal_loop(_, _, _)
literal_loop(t, st, multiline) ==
    IF st.ci >= Len(t) THEN Ret(st, Err(TokenError("UnclosedLiteral", st.start, -1)))
    ELSE LET i == st.ci
             s1 == [st EXCEPT !.ci = i + 1]
         IN  IF multiline /\ next_is(t, i, <<"'", "'", "'">>)
             THEN OkSlice(t, [s1 EXCEPT !.ci = Min(i + 3, Len(t))], st.start,
                          StringTok(<<>>, TRUE, TRUE), st.start + 3, i, i + 3)
             ELSE IF Ch(t, i) = "'" /\ ~multiline
             THEN OkSlice(t, s1, st.start, StringTok(<<>>, TRUE, FALSE), st.start + 1, i, i + 1)
             ELSE literal_loop(t, s1, multiline)

RECURSIVE basic_loop(_, _, _, _)
basic_loop(t, st, multiline, escaped) ==
    IF st.ci >= Len(t) THEN Ret(st, Err(TokenError("UnclosedString", st.start, -1)))
    ELSE LET i == st.ci
             ch == Ch(t, i)
             s1 == [st EXCEPT !.ci = i + 1]
             bad(pos) == Err(TokenError("InvalidEscapeCharacter", st.start, pos))
         IN  IF ~escaped
             THEN IF multiline /\ next_is(t, i, <<"\"", "\"", "\"">>)
                  THEN OkSlice(t, [s1 EXCEPT !.ci = Min(i + 3, Len(t))], st.start,
                               StringTok(<<>>, FALSE, TRUE), st.start + 3, i, i + 3)
                  ELSE IF ch = "\"" /\ ~multiline
                  THEN OkSlice(t, s1, st.start, StringTok(<<>>, FALSE, FALSE),
                               st.start + 1, i, i + 1)
                  ELSE basic_loop(t, s1, multiline, ch = "\\")
             ELSE CASE ch = "\r" ->
                         IF s1.ci < Len(t) /\ Ch(t, s1.ci) = "\n"
                         THEN basic_loop(t, [s1 EXCEPT !.ci = @ + 1], multiline, FALSE)
                         ELSE Ret([s1 EXCEPT !.ci = Min(@ + 1, Len(t))], bad(i))
                    [] ch \in {" ", "\t", "\n"} -> basic_loop(t, s1, multiline, FALSE)
                    [] ch \in {"b", "t", "n", "f", "r", "\"", "\\"} ->
                         basic_loop(t, s1, multiline, FALSE)
                    [] ch \in {"u", "U"} ->
                         LET h == hex_loop(t, s1, IF ch = "u" THEN 4 ELSE 8) IN
                         IF h.bad >= 0 THEN Ret(h.st, bad(h.bad))
                         ELSE basic_loop(t, h.st, multiline, FALSE)
                    [] OTHER -> Ret(s1, bad(i))

read_string(t, st, literal) ==
    LET q == IF literal THEN "'" ELSE "\""
        multiline == next_is(t, st.start + 1, <<q, q>>)
        s1 == IF multiline THEN [st EXCEPT !.ci = Min(@ + 2, Len(t))] ELSE st
    IN  IF st.start + 1 > Len(t) THEN Ret(st, Panic)
        ELSE IF literal THEN literal_loop(t, s1, multiline)
        ELSE basic_loop(t, s1, multiline, FALSE)

RECURSIVE read_float(_, _, _, _)
read_float(t, st, exponent_found, was_number) ==
    IF st.ci >= Len(t)
    THEN OkSlice(t, st, st.start, Tok("Float", <<>>), st.start, Len(t), st.start)
    ELSE LET i == st.ci
             ch == Ch(t, i)
             s1 == [st EXCEPT !.ci = i + 1]
             sign == s1.ci < Len(t) /\ Ch(t, s1.ci) \in {"-", "+"}
         IN  CASE ch \in {"e", "E"} /\ exponent_found ->
                    Ret(st, Err(TokenError("InvalidFloatCharacter", st.start, i)))
               [] ch \in {"e", "E"} /\ ~exponent_found ->
                    read_float(t, IF sign THEN [s1 EXCEPT !.ci = @ + 1] ELSE s1, TRUE, was_number)
               [] ch \in Digits -> read_float(t, s1, exponent_found, TRUE)
               [] ch = "_" /\ was_number -> read_float(t, s1, exponent_found, FALSE)
               [] ch = "_" /\ ~was_number ->
                    Ret([st EXCEPT !.finished = TRUE],
                        Err(TokenError("UnderscoreNotAfterNumber", st.start, i)))
               [] ch \in NumberEnd -> OkSlice(t, st, st.start, Tok("Float", <<>>), st.start, i, i)
               [] OTHER -> Ret(st, Err(TokenError("InvalidFloatCharacter", st.start, i)))

RECURSIVE read_int(_, _, _, _)
read_int(t, st, was_number, datetime_possible) ==
    IF st.ci >= Len(t)
    THEN OkSlice(t, st, st.start, Tok("Int", <<>>), st.start, Len(t), st.start)
    ELSE LET i == st.ci
             ch == Ch(t, i)
             s1 == [st EXCEPT !.ci = i + 1]
             sign == s1.ci < Len(t) /\ Ch(t, s1.ci) \in {"-", "+"}
         IN  CASE ch \in Digits -> read_int(t, s1, TRUE, datetime_possible)
               [] ch = "-" /\ datetime_possible -> read_datetime(t, st)
               [] ch = "." -> read_float(t, s1, FALSE, FALSE)
               [] ch \in {"e", "E"} ->
                    read_float(t, IF sign THEN [s1 EXCEPT !.ci = @ + 1] ELSE s1, TRUE, FALSE)
               [] ch = "_" /\ was_number -> read_int(t, s1, FALSE, FALSE)
               [] ch = "_" /\ ~was_number ->
                    Ret([st EXCEPT !.finished = TRUE],
                        Err(TokenError("UnderscoreNotAfterNumber", st.start, i)))
               [] ch \in NumberEnd -> OkSlice(t, st, st.start, Tok("Int", <<>>), st.start, i, i)
               [] OTHER -> Ret(st, Err(TokenError("InvalidIntCharacter", st.start, i)))

\* i, ch: the character Tokens::next has just taken from chars
read_value(t, st, i, ch) ==
    LET invalid == Ret([st EXCEPT !.finished = TRUE],
                       Err(TokenError("InvalidValueCharacter", st.start, i)))
        word(w, b) ==
            IF next_is(t, i, w)
            THEN Ret([st EXCEPT !.ci = Min(@ + Len(w) - 1, Len(t)), !.start = i + Len(w)],
                     Ok(st.start, BoolTok(b)))
            ELSE invalid
    IN  CASE ch = "t" -> word(<<"t", "r", "u", "e">>, TRUE)
          [] ch = "f" -> word(<<"f", "a", "l", "s", "e">>, FALSE)
          [] ch \in {"-", "+"} -> read_int(t, st, FALSE, FALSE)
          [] ch \in Digits -> read_int(t, st, TRUE, TRUE)
          [] OTHER -> invalid

\* Iterator for Tokens: one call of next(). chk: the build checks overflow.
TokensNext(t, chk, st) ==
    IF st.finished THEN Ret(st, None)
    ELSE IF st.ci >= Len(t) THEN Ret([st EXCEPT !.finished = TRUE], None)
    ELSE
    LET start == st.start
        i == st.ci
        ch == Ch(t, i)
        s1 == [st EXCEPT !.ci = i + 1]
        after_newline == IF s1.scope_stack = <<>> THEN "Key" ELSE s1.scope
    IN  CASE ch \in {" ", "\t"} -> read_whitespace(t, s1)
          [] ch = "[" -> read_bracket(t, s1, TRUE)
          [] ch = "#" -> read_comment(t, s1)
          [] ch = "]" -> read_bracket(t, s1, FALSE)
          [] ch = "{" ->
               Ret([s1 EXCEPT !.start = @ + 1, !.scope_stack = Append(@, "{"), !.scope = "Key"],
                   Ok(start, Tok("CurlyOpen", <<>>)))
          [] ch = "}" ->
               IF s1.scope_stack = <<>>
               THEN IF start = 0 /\ chk THEN Ret([s1 EXCEPT !.finished = TRUE], Panic)
                    ELSE Ret([s1 EXCEPT !.finished = TRUE],
                             Err(TokenError("UnmatchedClosingBrace", -1, WrapSub1(start))))
               ELSE Ret([s1 EXCEPT !.scope_stack = Pop(@), !.start = @ + 1],
                        Ok(start, Tok("CurlyClose", <<>>)))
          [] ch = "\r" ->
               IF s1.ci < Len(t) /\ Ch(t, s1.ci) = "\n"
               THEN OkSlice(t, [s1 EXCEPT !.ci = @ + 1, !.scope = after_newline], start,
                            Tok("Newline", <<>>), start + 1, start + 3, start + 2)
               ELSE Ret([s1 EXCEPT !.start = @ + 1, !.finished = TRUE],
                        Err(TokenError("InvalidWhitespace", -1, i)))
          [] ch = "\n" ->
               Ret([s1 EXCEPT !.start = @ + 1, !.scope = after_newline],
                   Ok(start, Tok("Newline", <<"\n">>)))
          [] ch = "=" ->
               Ret([s1 EXCEPT !.start = @ + 1, !.scope = "Value"], Ok(start, Tok("Equals", <<>>)))
          [] ch = "\"" -> read_string(t, s1, FALSE)
          [] ch = "'" -> read_string(t, s1, TRUE)
          [] ch = "," ->
               Ret([s1 EXCEPT !.start = @ + 1,
                              !.scope = IF scope_is_table(s1) THEN "Key" ELSE @],
                   Ok(start, Tok("Comma", <<>>)))
          [] ch = "." -> Ret([s1 EXCEPT !.start = @ + 1], Ok(start, Tok("Dot", <<>>)))
          [] OTHER ->
               IF s1.scope = "Value" THEN read_value(t, s1, i, ch)
               ELSE IF ch \in KeyStartChars THEN read_key(t, s1)
               ELSE Ret(s1, Err(TokenError("InvalidKeyCharacter", -1, i)))

Quote(literal, multiline) ==
    CASE literal /\ multiline -> <<"'", "'", "'">>
      [] literal /\ ~multiline -> <<"'">>
      [] ~literal /\ multiline -> <<"\"", "\"", "\"">>
      [] OTHER -> <<"\"">>

\* utils::write_string
write_string(s, literal, multiline) == Quote(literal, multiline) \o s \o Quote(literal, multiline)

\* Token::write: what it appends to out
TokenWrite(tok) ==
    CASE tok.ty \in {"Whitespace", "Newline", "PlainKey", "DateTime", "Int", "Float"} -> tok.s
      [] tok.ty = "Comment" -> <<"#">> \o tok.s
      [] tok.ty = "SingleBracketOpen" -> <<"[">>
      [] tok.ty = "DoubleBracketOpen" -> <<"[", "[">>
      [] tok.ty = "SingleBracketClose" -> <<"]">>
      [] tok.ty = "DoubleBracketClose" -> <<"]", "]">>
      [] tok.ty = "CurlyOpen" -> <<"{">>
      [] tok.ty = "CurlyClose" -> <<"}">>
      [] tok.ty = "Equals" -> <<"=">>
      [] tok.ty = "Comma" -> <<",">>
      [] tok.ty = "Dot" -> <<".">>
      [] tok.ty = "Bool" -> IF tok.b THEN <<"t", "r", "u", "e">> ELSE <<"f", "a", "l", "s", "e">>
      [] tok.ty = "String" -> write_string(tok.s, tok.literal, tok.multiline)

(***************************************************************************)
(* Keys (key.rs) and string cleaning (utils.rs).                            *)
(***************************************************************************)
Key(kind, s, literal, multiline) ==
    [kind |-> kind, text |-> s, literal |-> literal, multiline |-> multiline]

PlainKey(s) == Key("Plain", s, FALSE, FALSE)
UserKey(s) == Key("User", s, FALSE, FALSE)
StringKey(s, literal, multiline) == Key("String", s, literal, multiline)

\* a cleaned string, or Panic
Cleaned(s) == [k |-> "Ok", s |-> s]

\* char::is_whitespace, over the characters of the model
WhiteSpace == {" ", "\t", "\n", "\r", "U+000C"}

HexValue(c) ==
    CASE c \in Digits -> CHOOSE n \in 0..9 : ToString(n) = c
      [] c \in {"a", "A"} -> 10
      [] c \in {"b", "B"} -> 11
      [] c \in {"c", "C"} -> 12
      [] c \in {"d", "D"} -> 13
      [] c \in {"e", "E"} -> 14
      [] c \in {"f", "F"} -> 15

\* one more than the largest code point, 0x10FFFF
CodePoints == 1114112

\* u32::from_str_radix(num, 16), values past the last code point kept as CodePoints
RECURSIVE from_str_radix(_, _)
from_str_radix(num, acc) ==
    IF num = <<>> THEN acc
    ELSE from_str_radix(Tail(num), Min(acc * 16 + HexValue(Head(num)), CodePoints))

\* char::from_u32(n).unwrap(): the character, or Panic for a surrogate or a
\* value past 0x10FFFF
from_u32(n) ==
    CASE n >= CodePoints \/ (55296 <= n /\ n <= 57343) -> Panic
      [] n = 10 -> Cleaned(<<"\n">>)
      [] n = 32 -> Cleaned(<<" ">>)
      [] n = 49 -> Cleaned(<<"1">>)
      [] n = 65 -> Cleaned(<<"A">>)
      [] n = 97 -> Cleaned(<<"a">>)
      [] n = 111 -> Cleaned(<<"o">>)
      [] OTHER -> Cleaned(<<"U+" \o ToString(n)>>)

RECURSIVE clean_loop(_, _, _, _, _)
clean_loop(t, i, string, escaped, escaped_whitespace) ==
    IF i >= Len(t) THEN Cleaned(string)
    ELSE LET ch == Ch(t, i)
             push(c) == clean_loop(t, i + 1, string \o <<c>>, FALSE, escaped_whitespace)
             len == IF ch = "u" THEN 4 ELSE 8
             num == Slice(t, i + 1, i + 1 + len)
             unicode == from_u32(from_str_radix(num, 0))
         IN  IF ~escaped
             THEN IF ch = "\\" THEN clean_loop(t, i + 1, string, TRUE, FALSE)
                  ELSE clean_loop(t, i + 1, string \o <<ch>>, FALSE, escaped_whitespace)
             ELSE CASE ch \in WhiteSpace -> clean_loop(t, i + 1, string, TRUE, TRUE)
                    [] ch \notin WhiteSpace /\ escaped_whitespace -> push(ch)
                    [] ~escaped_whitespace /\ ch = "n" -> push("\n")
                    [] ~escaped_whitespace /\ ch = "t" -> push("\t")
                    [] ~escaped_whitespace /\ ch = "b" -> push("U+0008")
                    [] ~escaped_whitespace /\ ch = "f" -> push("U+000C")
                    [] ~escaped_whitespace /\ ch = "\"" -> push("\"")
                    [] ~escaped_whitespace /\ ch = "\\" -> push("\\")
                    [] ~escaped_whitespace /\ ch \in {"u", "U"} ->
                         IF ~SliceOk(t, i + 1, i + 1 + len) THEN Panic
                         ELSE IF \E k \in 1..len : num[k] \notin HexDigits THEN Panic
                         ELSE IF unicode = Panic THEN Panic
                         ELSE clean_loop(t, i + 1 + len, string \o unicode.s, FALSE,
                                         escaped_whitespace)
                    [] OTHER -> Panic

clean_string(t, literal, multiline) ==
    LET first == IF t = <<>> THEN "" ELSE t[1]
        second == IF Len(t) < 2 THEN "" ELSE t[2]
    IN  IF literal
        THEN IF multiline /\ first = "\r" THEN Cleaned(SubSeq(t, 3, Len(t)))
             ELSE IF multiline /\ first = "\n" THEN Cleaned(SubSeq(t, 2, Len(t)))
             ELSE Cleaned(t)
        ELSE LET cr == IF multiline /\ first = "\r" THEN 1 ELSE 0
                 lf == IF multiline /\ cr < Len(t) /\ Ch(t, cr) = "\n" THEN 1 ELSE 0
             IN  clean_loop(t, cr + lf, <<>>, FALSE, FALSE)

\* TomlKey::normalized
normalized(key) ==
    IF key.kind \in {"Plain", "User"} THEN Cleaned(key.text)
    ELSE clean_string(key.text, key.literal, key.multiline)

\* PartialEq for TomlKey: a panic of normalized() is a panic of the comparison
KeyEq(a, b) ==
    IF normalized(a) = Panic \/ normalized(b) = Panic THEN Panic
    ELSE [k |-> "Ok", eq |-> normalized(a).s = normalized(b).s]

(***************************************************************************)
(* Values (value.rs) and arrays (array.rs).                                 *)
(***************************************************************************)
\* Value::String(TomlString::Text {..}) and Value::String(TomlString::User(..))
StringText(s, literal, multiline) ==
    [ty |-> "String", user |-> FALSE, text |-> s, literal |-> literal, multiline |-> multiline]
StringUser(s) == [ty |-> "String", user |-> TRUE, text |-> s]
\* Value::Int(Int::Text(..)), Value::Float(Float::Text(..)), Value::DateTime(..)
TextValue(ty, s) == [ty |-> ty, user |-> FALSE, text |-> s]
\* Value::Int(Int::Value(..))
IntValue(n) == [ty |-> "Int", user |-> TRUE, value |-> n]
BoolValue(b) == [ty |-> "Bool", value |-> b]
TableValue(table) == [ty |-> "Table", table |-> table]
ArrayValue(array) == [ty |-> "Array", array |-> array]

is_same_type(a, b) == a.ty = b.ty

is_table(v) == v.ty = "Table"

\* ArrayData::new_inline() (inline) and ArrayData::new_of_tables()
NewArray(is_inline) == [items |-> <<>>, order |-> <<>>, is_inline |-> is_inline]

\* ArrayItem::Space, Comment, Item, Comma
ArrayItem(it, s) == [it |-> it, s |-> s]

\* ArrayData::push_space, push_comma, push_comment
array_push_order(array, item) == [array EXCEPT !.order = Append(@, item)]

\* what push_value and push return besides the array: Ok, or Err with the
\* message's kind
ArrayOk == [k |-> "Ok"]
ArrayErr(msg) == [k |-> "Err", msg |-> msg]

\* a variant of push_value that checks the type against the latest item only
\* when the array is one of tables
push_value_unchecked(array, value) ==
    IF ~array.is_inline /\ ~is_table(value)
    THEN [array |-> array, res |-> ArrayErr("array of tables")]
    ELSE [array |-> [array EXCEPT !.order = Append(@, ArrayItem("Item", <<>>)),
                                  !.items = Append(@, value)],
          res |-> ArrayOk]

push_value(array, value) ==
    IF array.items # <<>> /\ ~is_same_type(array.items[1], value)
    THEN [array |-> array, res |-> ArrayErr("array of type")]
    ELSE IF ~array.is_inline /\ ~is_table(value)
    THEN [array |-> array, res |-> ArrayErr("array of tables")]
    ELSE [array |-> [array EXCEPT !.order = Append(@, ArrayItem("Item", <<>>)),
                                  !.items = Append(@, value)],
          res |-> ArrayOk]

RECURSIVE array_has_trailing_comma(_, _)
array_has_trailing_comma(array, n) ==
    IF n = 0 THEN FALSE
    ELSE CASE array.order[n].it = "Comma" -> TRUE
           [] array.order[n].it = "Item" -> FALSE
           [] OTHER -> array_has_trailing_comma(array, n - 1)

push(array, value) ==
    IF array.is_inline /\ ~array_has_trailing_comma(array, Len(array.order))
    THEN push_value(array_push_order(array_push_order(array, ArrayItem("Comma", <<>>)),
                                     ArrayItem("Space", <<" ">>)),
                    value)
    ELSE push_value(array, value)

(***************************************************************************)
(* Tables (tabledata.rs).  The map of a table is a function from the       *)
(* normalized text of its keys, which is what Hash and Eq of a key compare. *)
(***************************************************************************)
\* TableData::new(inline)
NewTable(inline) == [inline |-> inline, order |-> <<>>, items |-> <<>>]

\* TableItem::Space, Newline, Comment, Comma
TableItem(it, s) == [it |-> it, s |-> s]

\* TableItem::Entry
Entry(key, before_eq, after_eq) ==
    [it |-> "Entry", key |-> key, before_eq |-> before_eq, after_eq |-> after_eq]

\* TableData::push_space, push_comma, push_newline, push_comment
table_push_order(table, item) == [table EXCEPT !.order = Append(@, item)]

\* HashMap::insert and HashMap::remove under an already normalized key
MapInsert(items, n, value) ==
    [x \in DOMAIN items \cup {n} |-> IF x = n THEN value ELSE items[x]]
MapRemove(items, n) == [x \in DOMAIN items \ {n} |-> items[x]]

\* a variant of insert_spaced that keeps the value a key already has
insert_spaced_keep(table, key, value, before_eq, after_eq) ==
    IF normalized(key) = Panic THEN Panic
    ELSE [table EXCEPT !.order = Append(@, Entry(key, before_eq, after_eq)),
                       !.items = IF normalized(key).s \in DOMAIN @ THEN @
                                 ELSE MapInsert(@, normalized(key).s, value)]

\* the table afterwards, or Panic when hashing the key panics
insert_spaced(table, key, value, before_eq, after_eq) ==
    IF normalized(key) = Panic THEN Panic
    ELSE [table EXCEPT !.order = Append(@, Entry(key, before_eq, after_eq)),
                       !.items = MapInsert(@, normalized(key).s, value)]

remove(table, key) ==
    IF normalized(key) = Panic THEN Panic
    ELSE [table EXCEPT !.items = MapRemove(@, normalized(key).s)]

\* TableData::get: Some(value), None, or Panic
get(table, key) ==
    IF normalized(key) = Panic THEN Panic
    ELSE IF normalized(key).s \in DOMAIN table.items
    THEN [k |-> "Some", value |-> table.items[normalized(key).s]]
    ELSE None

\* a variant of has_trailing_comma with the arms of Entry and Comma exchanged
RECURSIVE has_trailing_entry(_, _)
has_trailing_entry(table, n) ==
    IF n = 0 THEN FALSE
    ELSE CASE table.order[n].it = "Entry" -> TRUE
           [] table.order[n].it = "Comma" -> FALSE
           [] OTHER -> has_trailing_entry(table, n - 1)

RECURSIVE has_trailing_comma(_, _)
has_trailing_comma(table, n) ==
    IF n = 0 THEN FALSE
    ELSE CASE table.order[n].it = "Entry" -> FALSE
           [] table.order[n].it = "Comma" -> TRUE
           [] OTHER -> has_trailing_comma(table, n - 1)

\* the loop of last_indent over order[n], order[n-1], ...; first_space is <<>>
\* for None and <<text>> for Some(text)
RECURSIVE last_indent_loop(_, _, _, _, _)
last_indent_loop(order, n, last_was_entry, after_newline, first_space) ==
    IF n = 0 THEN (IF first_space = <<>> THEN <<>> ELSE first_space[1])
    ELSE LET item == order[n] IN
         CASE item.it = "Entry" ->
                last_indent_loop(order, n - 1, TRUE, after_newline, first_space)
           [] item.it = "Space" ->
                IF last_was_entry THEN item.s
                ELSE last_indent_loop(order, n - 1, last_was_entry, after_newline,
                                      IF after_newline /\ first_space = <<>>
                                      THEN <<item.s>> ELSE first_space)
           [] item.it \in {"Comment", "Comma"} ->
                last_indent_loop(order, n - 1, FALSE, after_newline, first_space)
           [] item.it = "Newline" ->
                last_indent_loop(order, n - 1, FALSE, TRUE, first_space)

last_indent(table) == last_indent_loop(table.order, Len(table.order), FALSE, FALSE, <<>>)

push_before_space(table, items) ==
    LET n == Len(table.order) IN
    IF table.order # <<>> /\ table.order[n].it = "Space"
    THEN [table EXCEPT !.order = SubSeq(@, 1, n - 1) \o items \o <<@[n]>>]
    ELSE [table EXCEPT !.order = @ \o items]

ensure_newline_after_scope(table) ==
    IF table.inline \/ \E i \in 1..Len(table.order) : table.order[i].it = "Newline"
    THEN table
    ELSE table_push_order(table, TableItem("Newline", <<"\n">>))

\* TableData::insert without the test for a key the table holds
insert_unchecked(table, key, value) ==
    IF normalized(key) = Panic THEN Panic
    ELSE IF ~table.inline
    THEN LET t1 == ensure_newline_after_scope(table)
             t2 == [t1 EXCEPT !.items = MapInsert(@, normalized(key).s, value)]
             indent == last_indent(t2)
         IN  push_before_space(t2,
                 (IF indent # <<>> THEN <<TableItem("Space", indent)>> ELSE <<>>)
                 \o <<Entry(key, <<" ">>, <<" ">>), TableItem("Newline", <<"\n">>)>>)
    ELSE insert_spaced(table, key, value, <<" ">>, <<" ">>)

\* TableData::insert, the insert_smart of the Table handle
insert(table, key, value) ==
    IF normalized(key) = Panic THEN Panic
    ELSE IF normalized(key).s \in DOMAIN table.items
    THEN [table EXCEPT !.items = MapInsert(@, normalized(key).s, value)]
    ELSE IF ~table.inline
    THEN LET t1 == ensure_newline_after_scope(table)
             t2 == [t1 EXCEPT !.items = MapInsert(@, normalized(key).s, value)]
             indent == last_indent(t2)
         IN  push_before_space(t2,
                 (IF indent # <<>> THEN <<TableItem("Space", indent)>> ELSE <<>>)
                 \o <<Entry(key, <<" ">>, <<" ">>), TableItem("Newline", <<"\n">>)>>)
    ELSE LET had_comma == has_trailing_comma(table, Len(table.order))
             comma == TableItem("Comma", <<>>)
             space == TableItem("Space", <<" ">>)
             t1 == IF DOMAIN table.items = {} THEN table
                   ELSE IF ~had_comma
                   THEN table_push_order(table_push_order(table, comma), space)
                   ELSE IF table.order # <<>> /\ table.order[Len(table.order)].it = "Comma"
                   THEN table_push_order(table, space)
                   ELSE table
             t2 == insert_spaced(t1, key, value, <<" ">>, <<" ">>)
         IN  IF had_comma THEN table_push_order(t2, comma) ELSE t2

(***************************************************************************)
(* Writing keys, values, arrays and tables back to text.  A writer returns *)
(* Written(text), or Panic.                                                 *)
(***************************************************************************)
Written(s) == [k |-> "Ok", s |-> s]

RECURSIVE escape_loop(_, _)
escape_loop(s, i) ==
    IF i > Len(s) THEN <<>>
    ELSE (CASE s[i] = "\n" -> <<"\\", "n">>
            [] s[i] = "\t" -> <<"\\", "t">>
            [] s[i] = "\r" -> <<"\\", "r">>
            [] s[i] = "\\" -> <<"\\", "\\">>
            [] s[i] = "\"" -> <<"\\", "\"">>
            [] OTHER -> <<s[i]>>) \o escape_loop(s, i + 1)

escape_string(s) == <<"\"">> \o escape_loop(s, 1) \o <<"\"">>

\* the key as a user wrote it, bare when it can be, or Panic (chars.next()
\* of an empty text is None, which is unwrapped)
create_key(s) ==
    IF s = <<>> THEN Panic
    ELSE IF s[1] \in KeyStartChars /\ \A i \in 1..Len(s) : s[i] \in KeyChars
    THEN Written(s)
    ELSE Written(escape_string(s))

\* TomlKey::write
key_write(key) ==
    CASE key.kind = "Plain" -> Written(key.text)
      [] key.kind = "String" -> Written(write_string(key.text, key.literal, key.multiline))
      [] key.kind = "User" -> create_key(key.text)

\* format!("{}", v) of an i64
RECURSIVE format_int(_)
format_int(n) ==
    IF n < 0 THEN <<"-">> \o format_int(-n)
    ELSE IF n < 10 THEN <<(<<"0", "1", "2", "3", "4", "5", "6", "7", "8", "9">>)[n + 1]>>
    ELSE format_int(n \div 10) \o format_int(n % 10)

\* a function that returned the integer n
Returned(n) == [k |-> "Ok", n |-> n]

DigitValue(c) ==
    CHOOSE n \in 0..9 : (<<"0", "1", "2", "3", "4", "5", "6", "7", "8", "9">>)[n + 1] = c

\* str::parse::<i64>: an optional + or - and then one or more decimal digits,
\* anything else (an underscore too) is an error; the loop goes over s[i..]
\* with the digits so far in acc. The literals here have fewer than ten
\* digits, so the checked arithmetic of the parse never overflows.
RECURSIVE parse_digits(_, _, _)
parse_digits(s, i, acc) ==
    IF i > Len(s) THEN Returned(acc)
    ELSE IF s[i] \notin Digits THEN [k |-> "Err"]
    ELSE parse_digits(s, i + 1, acc * 10 + DigitValue(s[i]))

parse_i64(s) ==
    IF s = <<>> THEN [k |-> "Err"]
    ELSE IF s[1] \in {"+", "-"}
    THEN IF Len(s) = 1 THEN [k |-> "Err"]
         ELSE LET Signed(r) == IF r.k = "Ok" /\ s[1] = "-" THEN Returned(-r.n) ELSE r
              IN  Signed(parse_digits(s, 2, 0))
    ELSE parse_digits(s, 1, 0)

\* Int::value: the text of a parsed integer goes through parse().expect(..),
\* a user-inserted integer is returned as it is
Int_value(int) ==
    IF int.user THEN Returned(int.value)
    ELSE LET Expect(r) == IF r.k = "Ok" THEN r ELSE Panic
         IN  Expect(parse_i64(int.text))

\* Value::int: the value of an integer item, None for every other item
Value_int(v) == IF v.ty = "Int" THEN Int_value(v) ELSE [k |-> "None"]

\* Value::write, ArrayData::write and TableData::write; the loops go over
\* order[i..] with what is written so far in acc
RECURSIVE value_write(_), array_write_loop(_, _, _, _), table_write_loop(_, _, _)
value_write(v) ==
    CASE v.ty = "String" ->
           IF v.user THEN Written(escape_string(v.text))
           ELSE Written(write_string(v.text, v.literal, v.multiline))
      [] v.ty = "Bool" ->
           Written(IF v.value THEN <<"t", "r", "u", "e">> ELSE <<"f", "a", "l", "s", "e">>)
      [] v.ty = "Table" -> table_write_loop(v.table, 1, IF v.table.inline THEN <<"{">> ELSE <<>>)
      [] v.ty = "Array" -> array_write_loop(v.array, 1, 0, IF v.array.is_inline THEN <<"[">> ELSE <<>>)
      [] OTHER -> IF v.user THEN Written(format_int(v.value)) ELSE Written(v.text)

array_write_loop(array, i, item_no, acc) ==
    IF i > Len(array.order)
    THEN Written(IF array.is_inline THEN acc \o <<"]">> ELSE acc)
    ELSE LET item == array.order[i]
             Item(w) == IF w = Panic THEN Panic
                        ELSE array_write_loop(array, i + 1, item_no + 1, acc \o w.s)
         IN  CASE item.it = "Space" -> array_write_loop(array, i + 1, item_no, acc \o item.s)
               [] item.it = "Comment" ->
                    array_write_loop(array, i + 1, item_no, acc \o <<"#">> \o item.s)
               [] item.it = "Item" ->
                    IF item_no >= Len(array.items) THEN Panic
                    ELSE Item(value_write(array.items[item_no + 1]))
               [] item.it = "Comma" -> array_write_loop(array, i + 1, item_no, acc \o <<",">>)

table_write_loop(table, i, acc) ==
    IF i > Len(table.order)
    THEN Written(IF table.inline THEN acc \o <<"}">> ELSE acc)
    ELSE LET item == table.order[i]
             Value(k, w) == IF w = Panic THEN Panic
                            ELSE table_write_loop(table, i + 1,
                                     acc \o k.s \o item.before_eq \o <<"=">>
                                         \o item.after_eq \o w.s)
             Entry_(k) == IF k = Panic \/ normalized(item.key) = Panic THEN Panic
                          ELSE IF normalized(item.key).s \notin DOMAIN table.items THEN Panic
                          ELSE Value(k, value_write(table.items[normalized(item.key).s]))
         IN  CASE item.it \in {"Space", "Newline"} ->
                    table_write_loop(table, i + 1, acc \o item.s)
               [] item.it = "Comment" ->
                    table_write_loop(table, i + 1, acc \o <<"#">> \o item.s)
               [] item.it = "Entry" -> Entry_(key_write(item.key))
               [] item.it = "Comma" -> table_write_loop(table, i + 1, acc \o <<",">>)

array_write(array) == value_write(ArrayValue(array))

table_write(table) == value_write(TableValue(table))

\* what Peekable<Tokens> hands the parser, call by call: every result up to
\* the first Err or panic (the parser takes no token after either)
RECURSIVE TokenStream(_, _, _)
TokenStream(t, chk, st) ==
    LET r == TokensNext(t, chk, st) IN
    CASE r.res.k = "None" -> <<>>
      [] r.res.k = "Ok" -> <<r.res>> \o TokenStream(t, chk, r.st)
      [] OTHER -> <<r.res>>

(***************************************************************************)
(* Paths of tables (table.rs).  A Table of table.rs is a table as above    *)
(* whose scope is None, and whose layout also holds Scope(key) items.       *)
(***************************************************************************)
\* what find_or_insert_with_slice returns with the table afterwards: Ok with
\* the value found or made and the place of it, a step for each segment of
\* the path (index is 0, or the index of the item of an array of tables
\* entered); or Err; or Panic
Found(table, res) == [table |-> table, res |-> res]
Place(key, index) == [key |-> key, index |-> index]
Under(place, table, r) ==
    Found(table, IF r.res.k = "Ok" THEN [r.res EXCEPT !.at = <<place>> \o @] ELSE r.res)

is_noninline_table(v) == v.ty = "Table" /\ ~v.table.inline
is_noninline_array_of_tables(v) == v.ty = "Array" /\ ~v.array.is_inline

\* TablePrivate::push_table
push_table(table, key) == table_push_order(table, [it |-> "Scope", key |-> key])

RECURSIVE find_or_insert_with_slice(_, _, _)
find_or_insert_with_slice(table, path, default) ==
    LET key == path[1]
        n == normalized(key).s
        rest == Tail(path)
        value == table.items[n]
    IN  IF normalized(key) = Panic THEN Found(table, Panic)
        ELSE IF rest = <<>>
        THEN IF n \in DOMAIN table.items
             THEN Found(table, [k |-> "Ok", at |-> <<Place(n, 0)>>, value |-> value])
             ELSE LET t1 == IF is_noninline_table(default)
                               \/ is_noninline_array_of_tables(default)
                            THEN push_table(table, key) ELSE table
                  IN  Found([t1 EXCEPT !.items = MapInsert(@, n, default)],
                            [k |-> "Ok", at |-> <<Place(n, 0)>>, value |-> default])
        ELSE IF n \notin DOMAIN table.items
        THEN LET r == find_or_insert_with_slice(NewTable(FALSE), rest, default)
                 t1 == push_table(table, key)
             IN  Under(Place(n, 0),
                       [t1 EXCEPT !.items = MapInsert(@, n, TableValue(r.table))], r)
        ELSE IF value.ty = "Table"
        THEN LET r == find_or_insert_with_slice(value.table, rest, default)
             IN  Under(Place(n, 0),
                       [table EXCEPT !.items = MapInsert(@, n, TableValue(r.table))], r)
        ELSE IF value.ty = "Array"
        THEN LET array == IF value.array.items = <<>>
                          THEN push(value.array, TableValue(NewTable(FALSE))).array
                          ELSE value.array
                 index == Len(array.items)
                 r == find_or_insert_with_slice(array.items[index].table, rest, default)
                 entered == [array EXCEPT !.items[index] = TableValue(r.table)]
             IN  IF array.is_inline
                 THEN Found([table EXCEPT !.items = MapInsert(@, n, ArrayValue(array))],
                            Err([e |-> "InvalidScopeTable"]))
                 ELSE IF array.items[index].ty # "Table" THEN Found(table, Panic)
                 ELSE Under(Place(n, index),
                            [table EXCEPT !.items = MapInsert(@, n, ArrayValue(entered))], r)
        ELSE Found(table, Err([e |-> "InvalidScopeTable"]))

\* Table::find_or_insert_table
find_or_insert_table(table, path) ==
    LET r == find_or_insert_with_slice(table, path, TableValue(NewTable(FALSE))) IN
    IF path = <<>> THEN Found(table, Err([e |-> "InvalidScopeTable"]))
    ELSE IF r.res.k = "Ok" /\ r.res.value.ty # "Table" THEN Found(r.table, Panic)
    ELSE r

\* Table::find: the value, or None
RECURSIVE find(_, _)
find(table, path) ==
    IF path = <<>> THEN None
    ELSE IF normalized(path[1]) = Panic THEN Panic
    ELSE IF normalized(path[1]).s \notin DOMAIN table.items THEN None
    ELSE LET value == table.items[normalized(path[1]).s] IN
         IF Len(path) = 1 THEN [k |-> "Some", value |-> value]
         ELSE IF value.ty = "Table" THEN find(value.table, Tail(path))
         ELSE None

(***************************************************************************)
(* Scopes (scope.rs) and documents (document.rs).                           *)
(***************************************************************************)
\* Scope::new()
NewScope == [ordering |-> <<>>, keys |-> <<>>]

\* Scope::push_dot, push_space
scope_push(scope, it, s) == [scope EXCEPT !.ordering = Append(@, [it |-> it, s |-> s])]

push_key(scope, key) ==
    [scope EXCEPT !.keys = Append(@, key),
                  !.ordering = Append(@, [it |-> "Part", index |-> Len(scope.keys)])]

\* Document::new()
NewDocument == [tree |-> NewTable(FALSE), order |-> <<>>]

\* DocumentItem::Whitespace(text), DocumentItem::Newline(Lf | CrLf)
DocumentItem(it, v) == [it |-> it, v |-> v]

\* Document::push_newline, DocumentPrivate::push_space_unchecked
document_push(document, item) == [document EXCEPT !.order = Append(@, item)]

\* Document::push_table_scope, push_array_scope, push_comment and write are
\* unimplemented!()
push_table_scope(document, scope) == Panic
push_array_scope(document, scope) == Panic
push_comment(document, comment) == Panic
\* Ok with the text written, if it returned
DocumentWrite(document) == Panic

\* Document::find_or_insert_table: the empty path is an error, and
\* find_or_insert_table_internal is unimplemented!() for every other path
Document_find_or_insert_table(document, path) ==
    IF path = <<>> THEN Err([e |-> "EmptyPath"]) ELSE Panic

\* Table::get_or_insert_with on the root table: the entry of the map gets the
\* default when it is vacant, and no layout item
get_or_insert_with(table, key, default) ==
    IF normalized(key) = Panic THEN Panic
    ELSE IF normalized(key).s \in DOMAIN table.items THEN table
    ELSE [table EXCEPT !.items = MapInsert(@, normalized(key).s, default)]

(***************************************************************************)
(* The parser (parse.rs) over the results S of the tokenizer, of which it  *)
(* has taken the first p.                                                   *)
(***************************************************************************)
\* ErrorKind with a start and a pos (-1 for the one a kind does not have)
ErrorKind(e, start, pos) == [e |-> e, start |-> start, pos |-> pos]
KeyDefinedTwice(pos, original) == [e |-> "KeyDefinedTwice", pos |-> pos, original |-> original]
WrongValueTypeInArray(start, pos, message) ==
    [e |-> "WrongValueTypeInArray", start |-> start, pos |-> pos, message |-> message]

\* `?` on a result of the tokenizer that is no token: From<lexer::Error>, or
\* the panic of the tokenizer
Lex(r) == IF r.k = "Panic" THEN Panic ELSE Err([e |-> "Lex", lex |-> r.err])

peek_or(S, p, err) ==
    IF p >= Len(S) THEN Err(err)
    ELSE IF S[p + 1].k = "Ok" THEN [k |-> "Ok", p |-> p, pos |-> S[p + 1].pos, tok |-> S[p + 1].tok]
    ELSE Lex(S[p + 1])

next_or(S, p, err) ==
    LET r == peek_or(S, p, err) IN IF r.k = "Ok" THEN [r EXCEPT !.p = p + 1] ELSE r

RECURSIVE read_scope(_, _, _, _, _, _, _)
read_scope(S, p, scope, array, start, was_key, key_found) ==
    IF p >= Len(S) THEN Err(ErrorKind("UnfinishedScope", start, -1))
    ELSE IF S[p + 1].k # "Ok" THEN Lex(S[p + 1])
    ELSE LET pos == S[p + 1].pos
             token == S[p + 1].tok
             InvalidScope == Err(ErrorKind("InvalidScope", start, pos))
         IN  CASE token.ty = "Dot" ->
                    IF ~was_key THEN InvalidScope
                    ELSE read_scope(S, p + 1, scope_push(scope, "Dot", <<>>), array, start,
                                    FALSE, key_found)
               [] \/ (token.ty = "SingleBracketClose" /\ ~array)
                  \/ (token.ty = "DoubleBracketClose" /\ array) ->
                    IF ~key_found \/ ~was_key THEN InvalidScope
                    ELSE [k |-> "Ok", p |-> p + 1, scope |-> scope]
               [] token.ty = "Whitespace" ->
                    read_scope(S, p + 1, scope_push(scope, "Space", token.s), array, start,
                               was_key, key_found)
               [] token.ty = "PlainKey" ->
                    read_scope(S, p + 1, push_key(scope, PlainKey(token.s)), array, start,
                               TRUE, TRUE)
               [] token.ty = "String" ->
                    read_scope(S, p + 1,
                               push_key(scope, StringKey(token.s, token.literal, token.multiline)),
                               array, start, TRUE, TRUE)
               [] OTHER -> InvalidScope

RECURSIVE Parser_read_value(_, _, _)
RECURSIVE read_array(_, _, _, _, _, _)
RECURSIVE read_inline_table(_, _, _, _, _, _)
RECURSIVE read_item(_, _, _, _)

\* Parser::read_value
Parser_read_value(S, p, start) ==
    LET next == next_or(S, p, ErrorKind("UnfinishedValue", start, -1))
        Value(v) == [k |-> "Ok", p |-> next.p, value |-> v]
        Table(r) == IF r.k # "Ok" THEN r
                    ELSE [k |-> "Ok", p |-> r.p, value |-> TableValue(r.table)]
    IN  IF next.k # "Ok" THEN next
        ELSE CASE next.tok.ty \in {"Int", "Float", "DateTime"} ->
                    Value(TextValue(next.tok.ty, next.tok.s))
               [] next.tok.ty = "String" ->
                    Value(StringText(next.tok.s, next.tok.literal, next.tok.multiline))
               [] next.tok.ty = "Bool" -> Value(BoolValue(next.tok.b))
               [] next.tok.ty = "SingleBracketOpen" ->
                    read_array(S, next.p, next.pos, NewArray(TRUE), TRUE, FALSE)
               [] next.tok.ty = "CurlyOpen" ->
                    Table(read_inline_table(S, next.p, next.pos, NewTable(TRUE), TRUE, FALSE))
               [] OTHER -> Err(ErrorKind("InvalidValue", start, next.pos))

\* the loop of Parser::read_array
read_array(S, p, start, array, is_reading_value, was_comma) ==
    LET peek == peek_or(S, p, ErrorKind("UnfinishedItem", start, -1))
        pos == peek.pos
        token == peek.tok
        Pushed(value, pushed) ==
            IF pushed.res.k = "Err"
            THEN Err(WrongValueTypeInArray(start, pos, pushed.res.msg))
            ELSE read_array(S, value.p, start, pushed.array, FALSE, was_comma)
        Read(value) == IF value.k # "Ok" THEN value
                       ELSE Pushed(value, push_value(array, value.value))
    IN  IF peek.k # "Ok" THEN peek
        ELSE CASE token.ty = "SingleBracketClose" ->
                    [k |-> "Ok", p |-> p + 1, value |-> ArrayValue(array)]
               [] token.ty = "Comma" ->
                    IF ~is_reading_value
                    THEN read_array(S, p + 1, start,
                                    array_push_order(array, ArrayItem("Comma", <<>>)),
                                    TRUE, was_comma)
                    ELSE IF ~was_comma
                    THEN read_array(S, p + 1, start,
                                    array_push_order(array, ArrayItem("Comma", <<>>)),
                                    TRUE, TRUE)
                    ELSE Err(ErrorKind("DoubleCommaInArray", start, pos))
               [] token.ty \in {"Whitespace", "Newline"} ->
                    read_array(S, p + 1, start,
                               array_push_order(array, ArrayItem("Space", token.s)),
                               is_reading_value, was_comma)
               [] token.ty = "Comment" ->
                    read_array(S, p + 1, start,
                               array_push_order(array, ArrayItem("Comment", token.s)),
                               is_reading_value, was_comma)
               [] OTHER ->
                    IF ~is_reading_value THEN Err(ErrorKind("MissingComma", start, pos))
                    ELSE IF was_comma THEN Err(ErrorKind("NonFinalComma", -1, pos))
                    ELSE Read(Parser_read_value(S, p, start))

\* the loop of Parser::read_inline_table
read_inline_table(S, p, start, table, reading_key, was_comma) ==
    IF p >= Len(S) THEN Err(ErrorKind("UnfinishedValue", start, -1))
    ELSE IF S[p + 1].k # "Ok" THEN Lex(S[p + 1])
    ELSE LET pos == S[p + 1].pos
             token == S[p + 1].tok
             key == IF token.ty = "PlainKey" THEN PlainKey(token.s)
                    ELSE StringKey(token.s, token.literal, token.multiline)
             Inserted(item, inserted) ==
                 IF inserted = Panic THEN Panic
                 ELSE read_inline_table(S, item.p, start, inserted, FALSE, was_comma)
             Item(item) ==
                 IF item.k # "Ok" THEN item
                 ELSE Inserted(item, insert_spaced(table, item.key, item.value,
                                                   item.before_eq, item.after_eq))
         IN  CASE token.ty = "Whitespace" ->
                    read_inline_table(S, p + 1, start,
                                      table_push_order(table, TableItem("Space", token.s)),
                                      reading_key, was_comma)
               [] token.ty = "CurlyClose" -> [k |-> "Ok", p |-> p + 1, table |-> table]
               [] token.ty = "Comma" /\ reading_key ->
                    IF ~was_comma
                    THEN read_inline_table(S, p + 1, start, table, reading_key, TRUE)
                    ELSE Err(ErrorKind("DoubleCommaInArray", start, pos))
               [] token.ty = "Comma" /\ ~reading_key ->
                    read_inline_table(S, p + 1, start,
                                      table_push_order(table, TableItem("Comma", <<>>)),
                                      TRUE, was_comma)
               [] token.ty \in {"PlainKey", "String"} /\ reading_key ->
                    IF token.ty = "String" /\ was_comma
                    THEN Err(ErrorKind("NonFinalComma", -1, pos))
                    ELSE Item(read_item(S, p + 1, pos, key))
               [] OTHER ->
                    IF reading_key THEN Err(ErrorKind("InvalidTableItem", -1, pos))
                    ELSE Err(ErrorKind("MissingComma", start, pos))

\* a variant of UnfinishedItem that loses the offset of the key
UnfinishedItemAtZero(start) == ErrorKind("UnfinishedItem", 0, -1)

\* ErrorKind::UnfinishedItem { start: start }
UnfinishedItem(start) == ErrorKind("UnfinishedItem", start, -1)

\* Parser::read_item; a before_eq or after_eq of None is the empty text that
\* insert_spaced makes of it
read_item(S, p, start, key) ==
    LET first == next_or(S, p, UnfinishedItem(start))
        spaced == first.k = "Ok" /\ first.tok.ty = "Whitespace"
        next == IF spaced THEN next_or(S, first.p, UnfinishedItem(start)) ELSE first
        after == peek_or(S, next.p, UnfinishedItem(start))
        has_whitespace_after == after.tok.ty = "Whitespace"
        q == IF has_whitespace_after THEN next.p + 1 ELSE next.p
        value_start == peek_or(S, q, UnfinishedItem(start))
        Item(value) ==
            IF value.k # "Ok" THEN value
            ELSE [k |-> "Ok", p |-> value.p, key |-> key,
                  before_eq |-> IF spaced THEN first.tok.s ELSE <<>>,
                  after_eq |-> IF has_whitespace_after THEN after.tok.s ELSE <<>>,
                  value |-> value.value]
    IN  IF first.k # "Ok" THEN first
        ELSE IF next.k # "Ok" THEN next
        ELSE IF next.tok.ty # "Equals" THEN Err(ErrorKind("MissingEquals", start, next.pos))
        ELSE IF after.k # "Ok" THEN after
        ELSE IF value_start.k # "Ok" THEN value_start
        ELSE Item(Parser_read_value(S, q, value_start.pos))

\* the loop of Parser::read_table
RECURSIVE read_table(_, _, _)
read_table(S, p, table) ==
    IF p >= Len(S) THEN [k |-> "Ok", p |-> p, table |-> table]
    ELSE IF S[p + 1].k # "Ok" THEN Lex(S[p + 1])
    ELSE LET pos == S[p + 1].pos
             token == S[p + 1].tok
             key == IF token.ty = "PlainKey" THEN PlainKey(token.s)
                    ELSE StringKey(token.s, token.literal, token.multiline)
             Inserted(item, inserted) ==
                 IF inserted = Panic THEN Panic ELSE read_table(S, item.p, inserted)
             Item(item) ==
                 IF item.k # "Ok" THEN item
                 ELSE Inserted(item, insert_spaced(table, item.key, item.value,
                                                   item.before_eq, item.after_eq))
         IN  CASE token.ty \in {"SingleBracketOpen", "DoubleBracketOpen"} ->
                    [k |-> "Ok", p |-> p, table |-> table]
               [] token.ty = "Whitespace" ->
                    read_table(S, p + 1, table_push_order(table, TableItem("Space", token.s)))
               [] token.ty = "Newline" ->
                    read_table(S, p + 1,
                        table_push_order(table,
                            TableItem("Newline",
                                      IF token.s # <<>> /\ token.s[1] = "\r"
                                      THEN <<"\r", "\n">> ELSE <<"\n">>)))
               [] token.ty = "Comment" ->
                    read_table(S, p + 1, table_push_order(table, TableItem("Comment", token.s)))
               [] token.ty \in {"PlainKey", "String"} ->
                    Item(read_item(S, p + 1, pos, key))
               [] OTHER -> Err(ErrorKind("InvalidTableItem", -1, pos))

\* a `[[scope]]` header of Parser::parse, from the scope it has read on: the
\* array of tables found or made, a table pushed onto it, the body read into
\* that table, and the scope pushed onto the document
array_scope(S, p, document, scope, pos) ==
    LET path == scope.keys
        rest == SubSeq(path, 1, Len(path) - 1)
        key == path[Len(path)]
        parent == IF rest # <<>> THEN Document_find_or_insert_table(document, rest)
                  ELSE [k |-> "Ok", table |-> document.tree]
        Scoped(body, after) ==
            IF after = Panic THEN Panic
            ELSE [k |-> "Ok", p |-> body.p, document |-> after]
        Array(pushed, body) ==
            [pushed.array EXCEPT !.items[Len(pushed.array.items)] = TableValue(body.table)]
        NewTree(table, array) ==
            [table EXCEPT !.items = MapInsert(@, normalized(key).s, ArrayValue(array))]
        Body(table, pushed, body) ==
            IF body.k # "Ok" THEN body
            ELSE Scoped(body,
                        push_array_scope(
                            [document EXCEPT !.tree = NewTree(table, Array(pushed, body))],
                            scope))
        Pushed(table, pushed) ==
            IF pushed.res.k = "Err"
            THEN Err(WrongValueTypeInArray(pos, pos, pushed.res.msg))
            ELSE Body(table, pushed, read_table(S, p, NewTable(FALSE)))
        Array_(table, found) ==
            IF found.ty # "Array" THEN Err(KeyDefinedTwice(pos, pos))
            ELSE Pushed(table, push_value(found.array, TableValue(NewTable(FALSE))))
        Inserted(table) ==
            IF table = Panic THEN Panic ELSE Array_(table, table.items[normalized(key).s])
    IN  IF parent.k # "Ok" THEN Panic
        ELSE Inserted(get_or_insert_with(parent.table, key, ArrayValue(NewArray(FALSE))))

\* a `[scope]` header of Parser::parse, from the scope it has read on
table_scope(S, p, document, scope) ==
    LET found == Document_find_or_insert_table(document, scope.keys)
        Scoped(body, after) ==
            IF after = Panic THEN Panic
            ELSE [k |-> "Ok", p |-> body.p, document |-> after]
        Body(body) ==
            IF body.k # "Ok" THEN body ELSE Scoped(body, push_table_scope(document, scope))
    IN  IF found.k = "Err" THEN Err(ErrorKind("InvalidScopePath", -1, -1))
        ELSE IF found.k = "Panic" THEN Panic
        ELSE Body(read_table(S, p, found.table))

\* the loop of Parser::parse: Ok with the document, Err with the kind of the
\* error, or Panic
RECURSIVE parse_loop(_, _, _)
parse_loop(S, p, document) ==
    IF p >= Len(S) THEN [k |-> "Ok", document |-> document]
    ELSE IF S[p + 1].k # "Ok" THEN Lex(S[p + 1])
    ELSE LET pos == S[p + 1].pos
             token == S[p + 1].tok
             Header(header) ==
                 IF header.k # "Ok" THEN header
                 ELSE parse_loop(S, header.p, header.document)
             Scope(scope) ==
                 IF scope.k # "Ok" THEN scope
                 ELSE Header(IF token.ty = "SingleBracketOpen"
                             THEN table_scope(S, scope.p, document, scope.scope)
                             ELSE array_scope(S, scope.p, document, scope.scope, pos))
             commented == push_comment(document, token.s)
             key == IF token.ty = "PlainKey" THEN PlainKey(token.s)
                    ELSE StringKey(token.s, token.literal, token.multiline)
             Inserted(item, inserted) ==
                 IF inserted = Panic THEN Panic
                 ELSE parse_loop(S, item.p, [document EXCEPT !.tree = inserted])
             Item(item) ==
                 IF item.k # "Ok" THEN item
                 ELSE Inserted(item, insert_spaced(document.tree, item.key, item.value,
                                                   item.before_eq, item.after_eq))
         IN  CASE token.ty = "Whitespace" ->
                    parse_loop(S, p + 1,
                               document_push(document, DocumentItem("Whitespace", token.s)))
               [] token.ty = "Newline" ->
                    IF token.s = <<"\n">>
                    THEN parse_loop(S, p + 1, document_push(document, DocumentItem("Newline", "Lf")))
                    ELSE IF token.s = <<"\r", "\n">>
                    THEN parse_loop(S, p + 1,
                                    document_push(document, DocumentItem("Newline", "CrLf")))
                    ELSE Panic
               [] token.ty \in {"SingleBracketOpen", "DoubleBracketOpen"} ->
                    Scope(read_scope(S, p + 1, NewScope, token.ty = "DoubleBracketOpen", pos,
                                     FALSE, FALSE))
               [] token.ty = "Comment" ->
                    IF commented = Panic THEN Panic ELSE parse_loop(S, p + 1, commented)
               [] token.ty \in {"PlainKey", "String"} ->
                    Item(read_item(S, p + 1, pos, key))
               [] OTHER -> Err(ErrorKind("InvalidTableItem", -1, pos))

\* parse(text)
parse(t, chk) == parse_loop(TokenStream(t, chk, NewTokens), 0, NewDocument)

(***************************************************************************)
(* Input texts: every text of at most MaxLen characters over Alphabet, and *)
(* the documents the specification and the tests name.                     *)
(***************************************************************************)
Alphabet == {"a", "1", "[", "]", "{", "}", "=", ",", "\n", "\r", " ", "\"", "\\", "_", "#", "."}

SeqsUpTo(S, n) == UNION {[1..k -> S] : k \in 0..n}

Samples ==
    { <<"x", " ", "=", " ", "[", "[", "1", "]", ",", "[", "2", "]", "]">>,
      <<"x", " ", "=", " ", "[", "[", "{", "}", "]", "]">>,
      <<"[", "[", "a", ".", "b", "]", "]", "\n", "c", "=", "1", "\n">>,
      <<"a", "r", "r", " ", "=", " ", "[", "1", ",", " ", ",", " ", "2", "]">>,
      <<"a", " ", "=", " ">>,
      <<"a", " ", "=", " ", "1", "_", "0", "\n", "b", "=", "t", "r", "u", "e", "\r", "\n", "c", "=", "2", "\n">>,
      <<"a", "=", "\"", "\\", "u", "0", "0", "4", "1", "\\", "q", "\"", "\n", "b">>,
      <<"t", " ", "=", " ", "{", " ", "a", " ", "=", " ", "1", ".", "5", " ", ",", " ", "b", "=", "'", "x", "'", " ", "}", "\n">>,
      <<"#", "c", "\n", "[", "a", "]", "\n", "k", " ", "=", " ", "2", "0", "1", "6", "-", "0", "1", "\n">>,
      <<"a", " ", "=", " ", "1", "\n", "a", " ", "=", " ", "2", "\n">>,
      <<"\"", "f", "o", "o", "\"", "=", "1", "\n", "f", "o", "o", "=", "2", "\n">> }

\* texts with an array that holds two commas with no value between them: the
\* offset of the array's opening bracket and that of the second comma
DoubleCommaTexts ==
    { [text |-> <<"a", "r", "r", " ", "=", " ", "[", "1", ",", " ", ",", " ", "2", "]">>,
       start |-> 6, pos |-> 10],
      [text |-> <<"a", "=", "[", "1", ",", ",", "]">>, start |-> 2, pos |-> 5],
      [text |-> <<"a", "=", "[", ",", ",", "]">>, start |-> 2, pos |-> 4] }

\* texts in which the header [[a]] follows a line that gives a a value that
\* is no array of tables: an empty inline array, an inline array of a
\* number, a number, an inline table
ArrayHeaderTexts ==
    { line \o <<"\n", "[", "[", "a", "]", "]">> :
        line \in { <<"a", "=", "[", "]">>, <<"a", "=", "[", "1", "]">>,
                   <<"a", "=", "1">>, <<"a", "=", "{", "}">> } }

\* texts of two lines that assign the key a, bare or quoted, twice: the text
\* and the text of the second value
TwiceTexts ==
    { [text |-> k1 \o <<"=">> \o v1 \o <<"\n">> \o k2 \o <<" ", "=">> \o v2, second |-> v2] :
        k1 \in {<<"a">>, <<"\"", "a", "\"">>}, k2 \in {<<"a">>, <<"\"", "a", "\"">>},
        v1 \in {<<"1">>, <<"2">>, <<"[", "]">>}, v2 \in {<<"1">>, <<"2">>, <<"[", "]">>} }

\* { a = 1, b = 2 }, with b at offset 9, and an array over two lines, with
\* its second value at offset 6
InlineTableText ==
    <<"{", " ", "a", " ", "=", " ", "1", ",", " ", "b", " ", "=", " ", "2", " ", "}">>
ArrayLinesText == <<"a", "=", "[", "1", ",", "\n", "2", "]">>

\* headers of tables and of arrays of tables: two keys with and without a dot
\* between them, two dots, and a value in a header
HeaderTexts ==
    { <<"[", "a", " ", "b", "]">>, <<"[", "[", "a", " ", "b", "]", "]">>,
      <<"[", "a", ".", "b", "]">>, <<"[", "a", ".", ".", "b", "]">>,
      <<"[", "\"", "a", "\"", "b", "]">>, <<"[", "a", " ", ".", " ", "b", " ">> }

\* inline tables with a comma that follows no entry: a leading comma, and a
\* comma after a comma, before a bare and before a quoted key
StrayCommaTexts ==
    { <<"x", "=", "{">> \o entry \o <<",">> \o key \o <<"=", "1", " ", "}">> :
        entry \in {<<>>, <<"a", "=", "1", ",">>},
        key \in {<<"a">>, <<"\"", "a", "\"">>} }

\* inline tables, opened at offset 2, in which another token than a comma or
\* a closing brace follows, at offset 7, the value of an entry and a space
MissingCommaTexts ==
    { <<"x", "=", "{", "a", "=", "1", " ">> \o token :
        token \in {<<"1">>, <<"\"", "a", "\"">>, <<"\n">>, <<"[">>, <<"{">>, <<"=">>} }

\* basic strings of one escape: the escapes of TOML, a line continuation, a
\* backslash before a space, and escapes that are none
EscapeTexts ==
    { <<"\"", "\\">> \o escape \o <<"\"">> :
        escape \in { <<"b">>, <<"t">>, <<"n">>, <<"f">>, <<"r">>, <<"\"">>, <<"\\">>,
                     <<"u", "0", "0", "4", "1">>,
                     <<"U", "0", "0", "0", "0", "0", "0", "4", "1">>,
                     <<"\n", " ", "a">>, <<" ">>, <<"q">>, <<"u", "0", "0", "4", "g">> } }

\* numbers after x=, with underscores after digits, signs, dots, exponent
\* markers and underscores, and with what follows a number
NumberLiterals ==
    { <<"1", ".", "5", "e", "_", "1">>, <<"1", "e", "_", "1">>, <<"1", ".", "_", "1">>,
      <<"+", "_", "1">>, <<"-", "_", "1">>, <<"1", "_", "_", "1">>, <<"_", "1">>,
      <<"1", "_", "0", "0", "0">>, <<"1", ".", "5", "_", "1">>, <<"1", "_", ".", "5">>,
      <<"+", "1">>, <<"-", "1">>, <<"1", "e", "+", "_", "1">>, <<"1", "_">>,
      <<"1", ".", "5", "e", "1", "_", "0">>, <<"1", "\r", "\n">>, <<"1", ".", "5">>,
      <<"1", ".", "5", "\r", "\n">>, <<"1", ".", "5", "}">> }

NumberTexts == {<<"x", "=">> \o literal : literal \in NumberLiterals}

Texts ==
    SeqsUpTo(Alphabet, MaxLen) \cup Samples \cup {d.text : d \in DoubleCommaTexts}
        \cup ArrayHeaderTexts \cup {d.text : d \in TwiceTexts}
        \cup {InlineTableText, ArrayLinesText}
        \cup HeaderTexts
        \cup StrayCommaTexts \cup MissingCommaTexts
        \cup EscapeTexts
        \cup NumberTexts

Idle == [k |-> "Idle"]

\* the variables a specification does not use stay as they are
IdleLex ==
    /\ text = <<>> /\ checked = TRUE /\ tk = NewTokens /\ last = Idle
    /\ out = <<>> /\ erred = FALSE /\ before = NewTokens

IdleParse == doc = Idle /\ written = Idle

IdleArr == arr = Idle /\ arrRes = Idle /\ arrPrev = Idle

IdleTbl == tbl = Idle /\ tblOp = Idle

IdleTree == tree = Idle /\ treeRes = Idle /\ treePrev = Idle

(***************************************************************************)
(* The tokenizer driven by a caller: tokens(text), then next() until it    *)
(* returns None (or panics), writing every token it yields to out.         *)
(***************************************************************************)
InitLexer ==
    /\ text \in Texts
    /\ checked \in BOOLEAN
    /\ tk = NewTokens
    /\ last = Idle
    /\ out = <<>>
    /\ erred = FALSE
    /\ before = NewTokens
    /\ IdleParse /\ IdleArr /\ IdleTbl /\ IdleTree

TokNext ==
    /\ last.k \notin {"None", "Panic"}
    /\ LET r == TokensNext(text, checked, tk) IN
        /\ tk' = r.st
        /\ last' = r.res
        /\ out' = IF r.res.k = "Ok" THEN out \o TokenWrite(r.res.tok) ELSE out
    /\ erred' = (erred \/ last.k = "Err")
    /\ before' = tk
    /\ UNCHANGED <<text, checked, parseVars, arrVars, tblVars, treeVars>>

NextLexer == TokNext

SpecLexer == InitLexer /\ [][NextLexer]_vars

(***************************************************************************)
(* A text parsed, and the document it gave written back.                    *)
(***************************************************************************)
InitParser ==
    /\ text \in Texts
    /\ checked \in BOOLEAN
    /\ tk = NewTokens /\ last = Idle /\ out = <<>> /\ erred = FALSE /\ before = NewTokens
    /\ doc = Idle
    /\ written = Idle
    /\ IdleArr /\ IdleTbl /\ IdleTree

Parse ==
    /\ doc = Idle
    /\ doc' = parse(text, checked)
    /\ UNCHANGED <<lexVars, written, arrVars, tblVars, treeVars>>

Write ==
    /\ doc # Idle
    /\ doc.k = "Ok"
    /\ written = Idle
    /\ written' = DocumentWrite(doc.document)
    /\ UNCHANGED <<lexVars, doc, arrVars, tblVars, treeVars>>

NextParser == Parse \/ Write

SpecParser == InitParser /\ [][NextParser]_vars

(***************************************************************************)
(* An array edited by a caller: values, commas and spaces pushed onto an   *)
(* array that starts empty, inline or of tables.                           *)
(***************************************************************************)
MaxOrder == 4

ArrayValues ==
    { TextValue("Int", <<"1">>), IntValue(2), StringUser(<<"x">>), BoolValue(TRUE),
      TableValue(NewTable(FALSE)),
      ArrayValue(NewArray(TRUE)) }

InitArray ==
    /\ arr \in {NewArray(TRUE), NewArray(FALSE)}
    /\ arrRes = Idle
    /\ arrPrev = Idle
    /\ IdleLex /\ IdleParse /\ IdleTbl /\ IdleTree

ArrayCall(op, value, r) ==
    /\ Len(arr.order) < MaxOrder
    /\ arr' = r.array
    /\ arrRes' = [op |-> op, value |-> value, res |-> r.res]
    /\ arrPrev' = arr
    /\ UNCHANGED <<lexVars, parseVars, tblVars, treeVars>>

ArrPush == \E v \in ArrayValues : ArrayCall("push", v, push(arr, v))

ArrPushValue == \E v \in ArrayValues : ArrayCall("push_value", v, push_value(arr, v))

ArrPushComma ==
    ArrayCall("push_comma", Idle,
              [array |-> array_push_order(arr, ArrayItem("Comma", <<>>)), res |-> ArrayOk])

ArrPushSpace ==
    ArrayCall("push_space", Idle,
              [array |-> array_push_order(arr, ArrayItem("Space", <<" ">>)), res |-> ArrayOk])

NextArray == ArrPush \/ ArrPushValue \/ ArrPushComma \/ ArrPushSpace

SpecArray == InitArray /\ [][NextArray]_vars

(***************************************************************************)
(* A table edited by a caller through its Table handle: a new table, or    *)
(* the root table of a parsed document.                                     *)
(***************************************************************************)
MaxLayout == 2

foo == <<"f", "o", "o">>

\* foo, "foo", the basic and the literal string f-\u006F-o, a user's foo, and "\r"
TableKeys ==
    { PlainKey(foo), StringKey(foo, FALSE, FALSE),
      StringKey(<<"f", "\\", "u", "0", "0", "6", "F", "o">>, FALSE, FALSE),
      StringKey(<<"f", "\\", "u", "0", "0", "6", "F", "o">>, TRUE, FALSE),
      UserKey(foo), StringKey(<<"\\", "r">>, FALSE, FALSE) }

TableValues == {TextValue("Int", <<"1">>), IntValue(2)}

ParsedTables ==
    {parse(t, TRUE).document.tree : t \in {d \in Samples : parse(d, TRUE).k = "Ok"}}

InitTable ==
    /\ tbl \in {NewTable(FALSE), NewTable(TRUE)} \cup ParsedTables
    /\ tblOp = Idle
    /\ IdleLex /\ IdleParse /\ IdleArr /\ IdleTree

\* a call on the handle: the table afterwards with the call and the table
\* it was made on, or the panic that ended it
TableCall(op, key, r) ==
    /\ tblOp # Panic
    /\ tbl' = IF r = Panic THEN tbl ELSE r
    /\ tblOp' = IF r = Panic THEN Panic ELSE [op |-> op, key |-> key, before |-> tbl]
    /\ UNCHANGED <<lexVars, parseVars, arrVars, treeVars>>

InsertSpaced ==
    /\ Len(tbl.order) < MaxLayout
    /\ \E key \in TableKeys, value \in TableValues :
           TableCall("insert_spaced", key, insert_spaced(tbl, key, value, <<>>, <<>>))

\* Table::insert
Insert ==
    /\ Len(tbl.order) < MaxLayout
    /\ \E key \in TableKeys, value \in TableValues :
           TableCall("insert", key, insert_spaced(tbl, key, value, <<" ">>, <<" ">>))

\* a call with a key the table holds adds nothing to the layout, so it is
\* taken at any length of the layout
InsertSmart ==
    \E key \in TableKeys, value \in TableValues :
        /\ \/ Len(tbl.order) <= MaxLayout
           \/ get(tbl, key) \notin {Panic, None}
        /\ TableCall("insert_smart", key, insert(tbl, key, value))

Remove == \E key \in TableKeys : TableCall("remove", key, remove(tbl, key))

\* Table::get: the table stays, the handle records what the lookup returned
Get ==
    /\ tblOp # Panic
    /\ \E key \in TableKeys :
           /\ tblOp' = IF get(tbl, key) = Panic THEN Panic
                       ELSE [op |-> "get", key |-> key, before |-> tbl,
                             res |-> get(tbl, key)]
           /\ UNCHANGED <<tbl, lexVars, parseVars, arrVars, treeVars>>

\* TableData::push_space, push_newline, push_comma
PushLayout ==
    /\ Len(tbl.order) < MaxLayout
    /\ \E item \in {TableItem("Space", <<" ">>), TableItem("Newline", <<"\n">>),
                    TableItem("Comma", <<>>)} :
           TableCall("push", Idle, table_push_order(tbl, item))

NextTable == InsertSpaced \/ Insert \/ InsertSmart \/ Remove \/ Get \/ PushLayout

SpecTable == InitTable /\ [][NextTable]_vars

(***************************************************************************)
(* A tree of tables in which a caller finds or inserts tables by path, on  *)
(* the root Table and on the Document that holds the tree.                  *)
(***************************************************************************)
MaxPath == 2

PathKeys == {UserKey(<<"a">>), UserKey(<<"b">>)}

Paths == UNION {[1..n -> PathKeys] : n \in 1..MaxPath}

\* what stands in the way of a path: a number, an inline array, empty and
\* not, an inline table, and an empty array of tables
TreeValues ==
    { TextValue("Int", <<"1">>), ArrayValue(NewArray(TRUE)),
      ArrayValue(push_value(NewArray(TRUE), TextValue("Int", <<"1">>)).array),
      TableValue(NewTable(TRUE)), ArrayValue(NewArray(FALSE)) }

\* the call that made the root: Table::new_regular()
TreeNew == [api |-> "new_regular", path |-> <<>>, res |-> [k |-> "Ok"]]

InitTree ==
    /\ tree = NewTable(FALSE)
    /\ treeRes = TreeNew
    /\ treePrev = [tree |-> NewTable(FALSE), call |-> TreeNew]
    /\ IdleLex /\ IdleParse /\ IdleArr /\ IdleTbl

TreeCall(api, path, r) ==
    /\ treeRes.res # Panic
    /\ tree' = r.table
    /\ treeRes' = [api |-> api, path |-> path, res |-> r.res]
    /\ treePrev' = [tree |-> tree, call |-> treeRes]
    /\ UNCHANGED <<lexVars, parseVars, arrVars, tblVars>>

TableFindOrInsertTable ==
    \E path \in Paths : TreeCall("Table", path, find_or_insert_table(tree, path))

DocumentFindOrInsertTable ==
    \E path \in Paths :
        TreeCall("Document", path,
                 Found(tree, Document_find_or_insert_table([tree |-> tree, order |-> <<>>], path)))

\* a value put under a key of the root that has none
TreeInsert ==
    \E key \in PathKeys, value \in TreeValues :
        /\ normalized(key).s \notin DOMAIN tree.items
        /\ TreeCall("insert_spaced", <<key>>,
                    Found(insert_spaced(tree, key, value, <<" ">>, <<" ">>), [k |-> "Ok"]))

NextTree == TableFindOrInsertTable \/ DocumentFindOrInsertTable \/ TreeInsert

SpecTree == InitTree /\ [][NextTree]_vars

(***************************************************************************)
(* Properties of the tokenizer.                                             *)
(***************************************************************************)

\* C2: when the tokenizer has run to the end of an input without yielding an
\* error, the concatenation of Token::write over the tokens it yielded, in
\* order, is the input text itself (also for inputs with \r\n line endings).
C2_LexWritePreservesText ==
    (last.k = "None" /\ ~erred) => out = text

\* C4: once a call of Tokens::next has returned an Err, every later call
\* returns None, whatever the kind of the error.
C4_NoneAfterErr ==
    erred => last.k = "None"

\* the character at offset pos of the text stands after an `=` of its own
\* line, in a text that holds no quote and no comment before it
AfterEquals(t, pos) ==
    /\ \A j \in 0..(pos - 1) : Ch(t, j) \notin {"\"", "'", "#"}
    /\ \E i \in 0..(pos - 1) :
           /\ Ch(t, i) = "="
           /\ \A j \in (i + 1)..(pos - 1) : Ch(t, j) # "\n"

\* C9: a DoubleBracketOpen or DoubleBracketClose token is yielded only in key
\* position, never for brackets that stand inside a value (after an `=`); a
\* single bracket token pushes (open) or pops (close) the scope stack.
C9_DoubleBracketOnlyInKeyPosition ==
    last.k = "Ok" =>
        /\ last.tok.ty \in {"DoubleBracketOpen", "DoubleBracketClose"} =>
               ~AfterEquals(text, before.ci)
        /\ last.tok.ty = "SingleBracketOpen" =>
               tk.scope_stack = Append(before.scope_stack, "[")
        /\ last.tok.ty = "SingleBracketClose" =>
               (before.scope_stack # <<>> /\ tk.scope_stack = Pop(before.scope_stack))

(***************************************************************************)
(* Properties of arrays.                                                    *)
(***************************************************************************)

\* C5: a push or push_value of a value whose outer type differs from that of
\* the array's items returns the type-mismatch error and leaves both the item
\* list and the layout list of the array as they were before the call.
C5_MismatchedPushLeavesArray ==
    (/\ arrRes # Idle
     /\ arrRes.op \in {"push", "push_value"}
     /\ arrPrev.items # <<>>
     /\ ~is_same_type(arrPrev.items[1], arrRes.value))
    => (/\ arrRes.res.k = "Err"
        /\ arr.items = arrPrev.items
        /\ arr.order = arrPrev.order)

(***************************************************************************)
(* Properties of the parser.                                                *)
(***************************************************************************)

\* C1: the document that parse returns for a text it accepts, written
\* unmodified, is that text, byte for byte.
C1_WriteOfParseIsText ==
    (doc # Idle /\ doc.k = "Ok" /\ written # Idle) => written = [k |-> "Ok", s |-> text]

\* C3: parse returns Ok or Err for every text; no text makes it panic.
C3_ParseNeverPanics ==
    doc # Idle => doc.k \in {"Ok", "Err"}

\* C10: parsing an array with two commas and no value between them returns
\* DoubleCommaInArray with start at the array's opening bracket and pos at the
\* second comma.
C10_DoubleCommaInArray ==
    \A d \in DoubleCommaTexts :
        (text = d.text /\ doc # Idle) =>
            doc = Err(ErrorKind("DoubleCommaInArray", d.start, d.pos))

\* the offset of the key of a text that is layout (spaces, line feeds), a
\* plain or an empty quoted key, optional whitespace, `=`, optional whitespace
\* and the end of the input; -1 for a text of another shape
KeyThenEquals(t) ==
    LET s == SkipWhile(t, 0, {" ", "\n"})
        k == IF next_is(t, s, <<"\"", "\"">>) THEN s + 2
             ELSE IF s < Len(t) /\ Ch(t, s) \in KeyStartChars THEN SkipWhile(t, s, KeyChars)
             ELSE s
        e == SkipWhile(t, k, {" ", "\t"})
    IN  IF k > s /\ e < Len(t) /\ Ch(t, e) = "=" /\ SkipWhile(t, e + 1, {" ", "\t"}) = Len(t)
        THEN s ELSE -1

\* C11: parsing a key, optional whitespace, `=`, optional whitespace and then
\* the end of the input returns the error UnfinishedItem whose start is the
\* byte offset of the key.
C11_UnfinishedItemAtKey ==
    (doc # Idle /\ KeyThenEquals(text) >= 0) =>
        doc = Err(ErrorKind("UnfinishedItem", KeyThenEquals(text), -1))

\* a text `<layout>key =` has been parsed, its key not at offset 0
C11_Witness ==
    /\ doc # Idle
    /\ KeyThenEquals(text) > 0
    /\ doc.k = "Err" /\ doc.err.e = "UnfinishedItem"

(***************************************************************************)
(* Properties of tables and keys.                                           *)
(***************************************************************************)

\* the indices of the Entry items of a layout that name the normalized key n
EntriesOf(order, n) ==
    {i \in 1..Len(order) : order[i].it = "Entry" /\ normalized(order[i].key) = Cleaned(n)}

\* C6: after parsing and after every insert_spaced, insert, insert_smart and
\* remove, every key of the table's map is named by exactly one Entry of the
\* layout, and every Entry of the layout names a key of the map.
C6_EntriesMatchMap ==
    /\ \A n \in DOMAIN tbl.items : Cardinality(EntriesOf(tbl.order, n)) = 1
    /\ \A i \in 1..Len(tbl.order) :
           tbl.order[i].it = "Entry" =>
               \E n \in DOMAIN tbl.items : i \in EntriesOf(tbl.order, n)

\* C8: no operation on a key faults; a lookup under a key reaches the entry
\* that a lookup under any other key of the same normalized text reaches, and
\* no entry of a key of another normalized text; foo, "foo", a user's foo and
\* "foo" are one key.
C8_KeysEqualByNormalizedText ==
    /\ tblOp # Panic
    /\ \A a, b \in {PlainKey(foo), StringKey(foo, FALSE, FALSE), UserKey(foo),
                    StringKey(<<"f", "\\", "u", "0", "0", "6", "F", "o">>, FALSE, FALSE)} :
           KeyEq(a, b) = [k |-> "Ok", eq |-> TRUE]
    /\ (tblOp # Idle /\ tblOp.op = "get") =>
           \A a \in TableKeys :
               IF normalized(a) = normalized(tblOp.key)
               THEN get(tbl, a) = tblOp.res
               ELSE (get(tbl, a) = None \/ tblOp.res = None
                     \/ EntriesOf(tbl.order, normalized(a).s)
                            \cap EntriesOf(tbl.order, normalized(tblOp.key).s) = {})

(***************************************************************************)
(* Properties of paths of tables.                                           *)
(***************************************************************************)

\* the proper prefixes of a path that name the segments before its last
Intermediate(path) == {SubSeq(path, 1, n) : n \in 1..(Len(path) - 1)}

\* no segment of the path names, in the tree, a value that is no table
Clear(table, path) ==
    \A n \in 1..Len(path) :
        \/ find(table, SubSeq(path, 1, n)) = None
        \/ is_table(find(table, SubSeq(path, 1, n)).value)

\* C7: a call of find_or_insert_table with a non-empty path of which no
\* segment names a value that is no table returns a table; a second call with
\* the same path returns what the first returned, the same table, creates
\* nothing and leaves the tree as it was; the intermediate segments that a
\* call created are regular, non-inline tables.
C7_FindOrInsertTableTwice ==
    treeRes.api \in {"Table", "Document"} =>
        /\ Clear(treePrev.tree, treeRes.path) =>
               (treeRes.res.k = "Ok" /\ is_table(treeRes.res.value))
        /\ \A q \in Intermediate(treeRes.path) :
               (find(treePrev.tree, q) = None /\ find(tree, q) # None) =>
                   is_noninline_table(find(tree, q).value)
        /\ (treePrev.call.api = treeRes.api /\ treePrev.call.path = treeRes.path) =>
               (/\ treePrev.call.res = treeRes.res
                /\ tree = treePrev.tree)


(***************************************************************************)
(* Format-aware insertion (tabledata.rs insert, last_indent).               *)
(***************************************************************************)
\* the index of the last Entry of a layout, 0 when it has none
RECURSIVE LastEntry(_, _)
LastEntry(order, n) ==
    IF n = 0 \/ order[n].it = "Entry" THEN n ELSE LastEntry(order, n - 1)

\* the item at index e starts a line, after at most one run of whitespace
OwnLine(order, e) ==
    \/ e = 1
    \/ order[e - 1].it = "Newline"
    \/ order[e - 1].it = "Space" /\ (e = 2 \/ order[e - 2].it = "Newline")

\* the whitespace between the start of its line and the item at index e
IndentOf(order, e) ==
    IF e > 1 /\ order[e - 1].it = "Space" THEN order[e - 1].s ELSE <<>>

\* the latest call was insert_smart of a key the non-inline table did not hold
SmartInsertedNew ==
    /\ tblOp \notin {Idle, Panic}
    /\ tblOp.op = "insert_smart"
    /\ ~tblOp.before.inline
    /\ normalized(tblOp.key).s \notin DOMAIN tblOp.before.items

\* C12: insert_smart of a new key into a non-inline table puts the new entry
\* on a line of its own: it follows a line break (or the start of the table)
\* and exactly the indentation of the last entry the table had, a newline
\* follows it, and a trailing whitespace item of the table stays behind it
C12_SmartInsertOwnLine ==
    SmartInsertedNew =>
        LET order == tbl.order
            e == LastEntry(order, Len(order))
            was == tblOp.before.order
            l == LastEntry(was, Len(was))
        IN  /\ e > 0 /\ order[e].key = tblOp.key
            /\ OwnLine(order, e)
            /\ l > 0 => IndentOf(order, e) = IndentOf(was, l)
            /\ e < Len(order) /\ order[e + 1].it = "Newline"
            /\ (was # <<>> /\ was[Len(was)].it = "Space") =>
                   (e + 2 = Len(order) /\ order[e + 2] = was[Len(was)])


\* the number of Comma items among order[from..to]
Commas(order, from, to) ==
    Cardinality({i \in from..to : order[i].it = "Comma"})

\* a comma is the last item of the layout that is an entry or a comma
EndsWithComma(order) ==
    \E i \in 1..Len(order) :
        /\ order[i].it = "Comma"
        /\ \A j \in (i + 1)..Len(order) : order[j].it \notin {"Entry", "Comma"}

\* the latest call was insert_smart of a key the inline table did not hold
InlineInsertedNew ==
    /\ tblOp \notin {Idle, Panic}
    /\ tblOp.op = "insert_smart"
    /\ tblOp.before.inline
    /\ normalized(tblOp.key).s \notin DOMAIN tblOp.before.items

ReadsBackAs(d, items) ==
    /\ d.k = "Ok"
    /\ get(d.document.tree, PlainKey(<<"x">>)).k = "Some"
    /\ get(d.document.tree, PlainKey(<<"x">>)).value.ty = "Array"
    /\ LET read == get(d.document.tree, PlainKey(<<"x">>)).value.array.items
       IN  /\ Len(read) = Len(items)
           /\ \A i \in 1..Len(items) : value_write(read[i]) = value_write(items[i])

\* the array is written to a text that the parser reads back to its items
RoundTrips(array) ==
    LET Read(w) == w # Panic /\ ReadsBackAs(parse(<<"x", "=">> \o w.s, TRUE), array.items)
    IN  Read(array_write(array))

\* C14: after a push that succeeded on an inline array that was written to a
\* text the parser reads back to its items (a new, empty one included), the
\* array is again written to a text the parser accepts and reads back to the
\* same items in the same order
C14_PushRoundTrips ==
    (/\ arrRes # Idle
     /\ arrRes.op = "push"
     /\ arrRes.res.k = "Ok"
     /\ arrPrev.is_inline
     /\ RoundTrips(arrPrev)) => RoundTrips(arr)


(***************************************************************************)
(* Writing a table after a removal (tabledata.rs remove and write).         *)
(***************************************************************************)
\* the table without the key n: neither in its map nor in its layout
Without(table, n) ==
    LET Keeps(item) == ~(item.it = "Entry" /\ normalized(item.key) = Cleaned(n))
    IN  [table EXCEPT !.order = SelectSeq(@, Keeps), !.items = MapRemove(@, n)]

\* the latest call removed a key that the table held, and the table was one
\* that is written without a panic
RemovedHeld ==
    /\ tblOp \notin {Idle, Panic}
    /\ tblOp.op = "remove"
    /\ normalized(tblOp.key).s \in DOMAIN tblOp.before.items
    /\ table_write(tblOp.before) # Panic

\* C15: after remove(key) on a table that held the key, the table is written
\* without a panic, and the text is the text of the table before the call
\* with the entries of the key left out
C15_WriteAfterRemove ==
    RemovedHeld =>
        /\ table_write(tbl) # Panic
        /\ table_write(tbl) = table_write(Without(tblOp.before, normalized(tblOp.key).s))


NoScope(value) ==
    CASE value.ty = "Table" -> value.table.inline
      [] value.ty = "Array" -> value.array.is_inline
      [] OTHER -> TRUE

\* some segment of the path, intermediate or last, names such a value
Blocked(table, path) ==
    \E n \in 1..Len(path) :
        /\ find(table, SubSeq(path, 1, n)) \notin {None, Panic}
        /\ NoScope(find(table, SubSeq(path, 1, n)).value)

\* C17: find_or_insert_table on a path in which a segment names an existing
\* scalar, inline array or inline table returns InvalidScopeTable, without a
\* panic and without changing the tree
C17_InvalidScopeTable ==
    (treeRes.api = "Table" /\ Blocked(treePrev.tree, treeRes.path)) =>
        /\ treeRes.res = Err([e |-> "InvalidScopeTable"])
        /\ tree = treePrev.tree


(***************************************************************************)
(* Array-of-tables headers over existing values (parse.rs, array.rs).       *)
(***************************************************************************)
\* C18: parsing the header [[a]] when a already holds a value that is no
\* array of tables, an inline array such as a = [] or a = [1] included,
\* returns an error
C18_ArrayHeaderOverValue ==
    (doc # Idle /\ text \in ArrayHeaderTexts) => doc.k = "Err"


(***************************************************************************)
(* A key assigned twice (parse.rs, tabledata.rs insert_spaced).             *)
(***************************************************************************)
\* C19: a text that assigns the same key twice is accepted; afterwards the
\* lookup of the key returns the second value, and the layout of the table
\* holds two Entry items of that key
C19_KeyAssignedTwice ==
    \A d \in TwiceTexts :
        (doc # Idle /\ text = d.text) =>
            /\ doc.k = "Ok"
            /\ get(doc.document.tree, PlainKey(<<"a">>)).k = "Some"
            /\ value_write(get(doc.document.tree, PlainKey(<<"a">>)).value) = Written(d.second)
            /\ Cardinality({i \in 1..Len(doc.document.tree.order) :
                   /\ doc.document.tree.order[i].it = "Entry"
                   /\ normalized(doc.document.tree.order[i].key) = Cleaned(<<"a">>)}) = 2

\* the document a=1, "a" =2 was parsed
C19_Witness ==
    /\ doc # Idle
    /\ text = <<"a", "=", "1", "\n", "\"", "a", "\"", " ", "=", "2">>
    /\ doc.k = "Ok"


(***************************************************************************)
(* The lexical mode of the tokenizer (tokens.rs).                           *)
(***************************************************************************)
\* C20: after an `=` the mode is Value; after a newline read with an empty
\* bracket stack it is Key, and inside an open bracket it stays as it was;
\* after a `{` it is Key; after a `,` whose innermost open scope is `{` it is
\* Key, and after one whose innermost open scope is `[` it stays as it was.
\* So the b of { a = 1, b = 2 } is a PlainKey, and the value after the
\* newline in an open array is read as a value
C20_ModeTransitions ==
    last.k = "Ok" =>
        LET ty == last.tok.ty
            stack == before.scope_stack
        IN  /\ ty = "Equals" => tk.scope = "Value"
            /\ ty = "Newline" => tk.scope = (IF stack = <<>> THEN "Key" ELSE before.scope)
            /\ ty = "CurlyOpen" => tk.scope = "Key"
            /\ (ty = "Comma" /\ stack # <<>>) =>
                   tk.scope = (IF stack[Len(stack)] = "{" THEN "Key" ELSE before.scope)
            /\ (text = InlineTableText /\ last.pos = 9) => (ty = "PlainKey" /\ last.tok.s = <<"b">>)
            /\ (text = ArrayLinesText /\ last.pos = 6) => (ty = "Int" /\ last.tok.s = <<"2">>)

\* the tokenizer has yielded the token at the b of { a = 1, b = 2 }
C20_Witness ==
    /\ text = InlineTableText
    /\ last.k = "Ok"
    /\ last.pos = 9
    /\ before.scope = "Key"


(***************************************************************************)
(* Headers of tables and arrays of tables (parse.rs read_scope).            *)
(***************************************************************************)
\* what a header is to give, read from the token S[p + 1] on: keys and dots
\* alternate, whitespace aside, up to the matching close after a key
RECURSIVE HeaderVerdict(_, _, _, _, _)
HeaderVerdict(S, p, start, array, want_key) ==
    IF p >= Len(S) THEN Err(ErrorKind("UnfinishedScope", start, -1))
    ELSE IF S[p + 1].k # "Ok" THEN [k |-> "Lex"]
    ELSE LET ty == S[p + 1].tok.ty
             close == IF array THEN "DoubleBracketClose" ELSE "SingleBracketClose"
         IN  CASE ty = "Whitespace" -> HeaderVerdict(S, p + 1, start, array, want_key)
               [] want_key /\ ty \in {"PlainKey", "String"} ->
                    HeaderVerdict(S, p + 1, start, array, FALSE)
               [] ~want_key /\ ty = "Dot" -> HeaderVerdict(S, p + 1, start, array, TRUE)
               [] ~want_key /\ ty = close -> [k |-> "Accept"]
               [] OTHER -> Err(ErrorKind("InvalidScope", start, S[p + 1].pos))

\* the text starts with the opening bracket of a header
StartsHeader(S) ==
    /\ S # <<>>
    /\ S[1].k = "Ok"
    /\ S[1].tok.ty \in {"SingleBracketOpen", "DoubleBracketOpen"}

\* C21: a header in which a dot or a close does not follow a key, two keys
\* stand with no dot between them, or any other token stands, gives
\* InvalidScope with the offset of the opening bracket and that of the token;
\* the end of the input before the close gives UnfinishedScope
C21_HeaderErrors ==
    LET Claim(S) ==
            StartsHeader(S) =>
                LET Verdict(v) == v.k = "Err" => doc = v
                IN  Verdict(HeaderVerdict(S, 1, S[1].pos,
                                          S[1].tok.ty = "DoubleBracketOpen", TRUE))
    IN  doc # Idle => Claim(TokenStream(text, checked, NewTokens))


(***************************************************************************)
(* Entries and commas of inline tables (parse.rs read_inline_table).        *)
(***************************************************************************)
\* C22: in an inline table a comma that does not directly follow an entry, a
\* leading comma or a comma after a comma, makes parse return an error,
\* before a bare key as before a quoted key; and a value followed by a token
\* that is no comma, whitespace or closing brace gives MissingComma with the
\* offsets of the table and of the token
C22_InlineTableCommas ==
    doc # Idle =>
        /\ text \in StrayCommaTexts => doc.k = "Err"
        /\ text \in MissingCommaTexts => doc = Err(ErrorKind("MissingComma", 2, 7))


(***************************************************************************)
(* Escapes in basic strings (tokens.rs read_string).                        *)
(***************************************************************************)
\* the offset of the first character among the n at i.. that is no hex
\* digit, -1 when there is none before the end of the text
RECURSIVE BadHex(_, _, _)
BadHex(t, i, n) ==
    IF n = 0 \/ i >= Len(t) THEN -1
    ELSE IF Ch(t, i) \notin HexDigits THEN i
    ELSE BadHex(t, i + 1, n - 1)

\* the offset of the character of the first escape that is none of b, t, n,
\* f, r, a double quote, a backslash, u with 4 hex digits, U with 8 hex
\* digits or a line break, in the basic string whose content starts at
\* offset i; -1 when the string closes or the text ends before one
RECURSIVE BadEscape(_, _, _)
BadEscape(t, i, multiline) ==
    IF i >= Len(t) THEN -1
    ELSE IF multiline /\ next_is(t, i, <<"\"", "\"", "\"">>) THEN -1
    ELSE IF ~multiline /\ Ch(t, i) = "\"" THEN -1
    ELSE IF Ch(t, i) # "\\" THEN BadEscape(t, i + 1, multiline)
    ELSE IF i + 1 >= Len(t) THEN -1
    ELSE LET c == Ch(t, i + 1) IN
         CASE c \in {"b", "t", "n", "f", "r", "\"", "\\", "\n"} -> BadEscape(t, i + 2, multiline)
           [] c = "\r" /\ next_is(t, i + 2, <<"\n">>) -> BadEscape(t, i + 3, multiline)
           [] c \in {"u", "U"} ->
                IF BadHex(t, i + 2, IF c = "u" THEN 4 ELSE 8) >= 0
                THEN BadHex(t, i + 2, IF c = "u" THEN 4 ELSE 8)
                ELSE BadEscape(t, i + 2 + (IF c = "u" THEN 4 ELSE 8), multiline)
           [] OTHER -> i + 1

\* the latest call of next, the first to return an error if it did, started
\* at the character ch
ReadFrom(ch) ==
    /\ last.k \notin {"Idle", "None"}
    /\ ~erred
    /\ before.ci < Len(text)
    /\ Ch(text, before.ci) = ch

\* C23: in a basic string, single-line or multiline, a backslash followed by
\* another character than b, t, n, f, r, a double quote, a backslash, u with
\* 4 hex digits, U with 8 hex digits or a line break gives
\* InvalidEscapeCharacter with the offset of the string and the offset of
\* that character; a literal string never gives this error
C23_InvalidEscapeCharacter ==
    /\ ReadFrom("\"") =>
           LET multiline == next_is(text, before.ci + 1, <<"\"", "\"">>)
               Bad(pos) == pos >= 0 =>
                   last = Err(TokenError("InvalidEscapeCharacter", before.ci, pos))
           IN  Bad(BadEscape(text, before.ci + (IF multiline THEN 3 ELSE 1), multiline))
    /\ ReadFrom("'") => ~(last.k = "Err" /\ last.err.e = "InvalidEscapeCharacter")


(***************************************************************************)
(* Cleaning the strings the tokenizer accepts (utils.rs clean_string).      *)
(***************************************************************************)
\* the characters that the content t[i..] of a basic string denotes: every
\* escape replaced by its character, and a backslash before a line break
\* left out together with the whitespace after it
RECURSIVE Denoted(_, _)
Denoted(t, i) ==
    IF i >= Len(t) THEN <<>>
    ELSE IF Ch(t, i) # "\\" \/ i + 1 >= Len(t) THEN <<Ch(t, i)>> \o Denoted(t, i + 1)
    ELSE LET c == Ch(t, i + 1)
             len == IF c = "u" THEN 4 ELSE 8
         IN  CASE c = "b" -> <<"U+0008">> \o Denoted(t, i + 2)
               [] c = "t" -> <<"\t">> \o Denoted(t, i + 2)
               [] c = "n" -> <<"\n">> \o Denoted(t, i + 2)
               [] c = "f" -> <<"U+000C">> \o Denoted(t, i + 2)
               [] c = "r" -> <<"\r">> \o Denoted(t, i + 2)
               [] c \in {"\"", "\\"} -> <<c>> \o Denoted(t, i + 2)
               [] c \in {"u", "U"} ->
                    from_u32(from_str_radix(Slice(t, i + 2, i + 2 + len), 0)).s
                        \o Denoted(t, i + 2 + len)
               [] OTHER -> Denoted(t, SkipWhile(t, i + 1, {" ", "\t", "\n", "\r"}))

\* C24: for every basic string the tokenizer yields, clean_string returns
\* without a panic, and returns the text with each escape replaced by the
\* character it denotes and each line continuation left out
C24_CleanAcceptedString ==
    (/\ last.k = "Ok"
     /\ last.tok.ty = "String"
     /\ ~last.tok.literal
     /\ ~last.tok.multiline) =>
        /\ clean_string(last.tok.s, FALSE, FALSE) # Panic
        /\ clean_string(last.tok.s, FALSE, FALSE) = Cleaned(Denoted(last.tok.s, 0))


(***************************************************************************)
(* Bare keys (tokens.rs read_key and the dispatch of next).                 *)
(***************************************************************************)
\* C25: in key position a maximal run of the characters a-z, A-Z, 0-9, _ and
\* - is yielded as one PlainKey token that holds the run, also when the run
\* starts with a digit
C25_BareKeyRun ==
    (/\ last.k \notin {"Idle", "None"}
     /\ ~erred
     /\ before.scope = "Key"
     /\ before.ci < Len(text)
     /\ Ch(text, before.ci) \in KeyChars
     /\ (before.ci = 0 \/ Ch(text, before.ci - 1) \notin KeyChars)) =>
        last = Ok(before.ci,
                  Tok("PlainKey", Slice(text, before.ci, SkipWhile(text, before.ci, KeyChars))))


(***************************************************************************)
(* Underscores in numbers (tokens.rs read_int, read_float).                 *)
(***************************************************************************)
\* the offset of the first underscore, in the number that starts at offset
\* start, that does not stand directly after a digit; -1 when the number
\* ends, or stops being a number, before one.  j is the offset looked at,
\* part is 0 in the integer part, 1 after the dot and 2 after the exponent
\* marker
RECURSIVE BadUnderscore(_, _, _, _)
BadUnderscore(t, start, j, part) ==
    IF j >= Len(t) THEN -1
    ELSE LET c == Ch(t, j)
             signed == j + 1 < Len(t) /\ Ch(t, j + 1) \in {"-", "+"}
         IN  CASE c \in Digits -> BadUnderscore(t, start, j + 1, part)
               [] c = "_" ->
                    IF j > start /\ Ch(t, j - 1) \in Digits
                    THEN BadUnderscore(t, start, j + 1, part)
                    ELSE j
               [] c \in {"-", "+"} /\ j = start -> BadUnderscore(t, start, j + 1, part)
               [] c = "." /\ part = 0 -> BadUnderscore(t, start, j + 1, 1)
               [] c \in {"e", "E"} /\ part < 2 /\ j > start ->
                    BadUnderscore(t, start, IF signed THEN j + 2 ELSE j + 1, 2)
               [] OTHER -> -1

\* the latest call of next, the first to return an error if it did, started
\* in value position at the first character of a number
ReadNumber ==
    /\ last.k \notin {"Idle", "None"}
    /\ ~erred
    /\ before.scope = "Value"
    /\ before.ci < Len(text)
    /\ Ch(text, before.ci) \in Digits \cup {"-", "+"}

\* C26: an underscore of a number that does not stand directly after a
\* digit (after a sign, a dot, an exponent marker or an underscore) gives
\* UnderscoreNotAfterNumber with the offset of the first character of the
\* number and the offset of the underscore
C26_UnderscoreNotAfterNumber ==
    ReadNumber =>
        LET Bad(pos) == pos >= 0 =>
                last = Err(TokenError("UnderscoreNotAfterNumber", before.ci, pos))
        IN  Bad(BadUnderscore(text, before.ci, before.ci, 0))


(***************************************************************************)
(* Closing brackets and braces with no open scope (tokens.rs).              *)
(***************************************************************************)
\* C27: a single ] or a } read while the scope stack is empty gives
\* UnmatchedClosingBrace with the offset of that character, for ] and for }
\* alike, also at offset 0
C27_UnmatchedClosingBrace ==
    (/\ last.k \notin {"Idle", "None"}
     /\ ~erred
     /\ before.ci < Len(text)
     /\ before.scope_stack = <<>>
     /\ \/ Ch(text, before.ci) = "}"
        \/ /\ Ch(text, before.ci) = "]"
           /\ ~(before.scope = "Key" /\ next_is(text, before.ci + 1, <<"]">>))) =>
        last = Err(TokenError("UnmatchedClosingBrace", -1, before.ci))


(***************************************************************************)
(* What ends a number (tokens.rs read_int, read_float).                     *)
(***************************************************************************)
\* the text ends at offset j, or what stands there ends a number
EndsNumber(t, j) ==
    \/ j = Len(t)
    \/ Ch(t, j) \in {"}", " ", "\t", ",", "]", "\n", "#"}
    \/ next_is(t, j, <<"\r", "\n">>)

\* C28: a run of digits, and a run of digits, a dot and a run of digits,
\* that is directly followed by }, by \r\n or by the end of the input is
\* yielded as one Int or Float token, as it is when a space, a tab, a comma,
\* a ], a \n or a # follows
C28_NumberEnds ==
    (ReadNumber /\ Ch(text, before.ci) \in Digits) =>
        LET j == SkipWhile(text, before.ci, Digits)
            k == SkipWhile(text, j + 1, Digits)
        IN  /\ EndsNumber(text, j) =>
                   last = Ok(before.ci, Tok("Int", Slice(text, before.ci, j)))
            /\ (j < Len(text) /\ Ch(text, j) = "." /\ k > j + 1 /\ EndsNumber(text, k)) =>
                   last = Ok(before.ci, Tok("Float", Slice(text, before.ci, k)))

\* ---------------------------------------------------------------------------
\* C29
\* ---------------------------------------------------------------------------

\* the integer a literal denotes: its digits read in base ten, the
\* underscores between them left out, negated after a leading -
RECURSIVE DecimalOf(_)
DecimalOf(s) ==
    IF s = <<>> THEN 0
    ELSE LET front == SubSeq(s, 1, Len(s) - 1)
             c == s[Len(s)]
         IN  IF c = "_" THEN DecimalOf(front)
             ELSE DecimalOf(front) * 10
                      + (CHOOSE n \in 0..9 : format_int(n) = <<c>>)

IntDenoted(s) ==
    IF s[1] = "-" THEN 0 - DecimalOf(Tail(s))
    ELSE IF s[1] = "+" THEN DecimalOf(Tail(s))
    ELSE DecimalOf(s)

\* the latest call yielded an Int token, no call before it having failed
YieldedInt == last.k = "Ok" /\ last.tok.ty = "Int" /\ ~erred

\* C29: for every integer literal the tokenizer yields as an Int token, with
\* underscores between its digits or a leading sign too, Int::value and
\* Value::int of the item made from the token's text return the integer the
\* literal denotes, without a fault
C29_IntValue ==
    YieldedInt =>
        /\ Int_value(TextValue("Int", last.tok.s)) = Returned(IntDenoted(last.tok.s))
        /\ Value_int(TextValue("Int", last.tok.s)) = Returned(IntDenoted(last.tok.s))

\* ---------------------------------------------------------------------------
\* C30
\* ---------------------------------------------------------------------------

\* the latest call was insert_smart with a key the table held
SmartReplaced ==
    /\ tblOp \notin {Idle, Panic}
    /\ tblOp.op = "insert_smart"
    /\ normalized(tblOp.key).s \in DOMAIN tblOp.before.items

\* C30: insert_smart with a key the table holds replaces only the stored
\* value: the layout list is the one the table had, the table holds the same
\* keys, the value of every other key is the one it had, and nothing else of
\* the table changes
C30_ReplaceOnly ==
    SmartReplaced =>
        LET held == normalized(tblOp.key).s
        IN  /\ tbl.order = tblOp.before.order
            /\ DOMAIN tbl.items = DOMAIN tblOp.before.items
            /\ \A other \in DOMAIN tbl.items \ {held} :
                   tbl.items[other] = tblOp.before.items[other]
            /\ tbl.items[held] \in TableValues
            /\ tbl.inline = tblOp.before.inline

\* a table with layout and another key, in which the value of the held key
\* was replaced by a different one
C30_Witness ==
    /\ SmartReplaced
    /\ tbl.items[normalized(tblOp.key).s] # tblOp.before.items[normalized(tblOp.key).s]
    /\ DOMAIN tbl.items \ {normalized(tblOp.key).s} # {}
    /\ \E i \in 1..Len(tbl.order) : tbl.order[i].it \in {"Newline", "Space", "Comma"}

====
